---- MODULE Spec2Model ----
(***************************************************************************)
(* Verification model of the pico_iox16 firmware core and of the tool's    *)
(* request loop.                                                           *)
(*                                                                         *)
(*   - the protocol codec (pico_iox16_protocol/src/lib.rs): frame          *)
(*     construction, CRC-16/KERMIT, the frame hunter next_message and the  *)
(*     typed decoders slave_next / master_next;                            *)
(*   - the dispatcher (pico_iox16_firmware/src/lib.rs): MainLoop::run and  *)
(*     MainLoop::write_all_bytes over the polled Read / Write traits;      *)
(*   - the non-volatile store (pico_iox16_firmware/src/nvm.rs): the data   *)
(*     and its flash image, Nvm and the handlers that read and set it;     *)
(*   - the input task (pico_iox16_firmware/src/input.rs): calibration,     *)
(*     the accumulators and their read-and-reset, the threshold            *)
(*     detectors and the handlers that report them;                        *)
(*   - the PWM outputs (pico_iox16_firmware/src/output.rs): handle_group   *)
(*     and the handlers that set and read the groups;                      *)
(*   - the executor (pico_iox16_firmware/src/runtime.rs and main_loop):    *)
(*     the dispatcher and InputLoop::run polled in turn under select;      *)
(*   - the master (pico_iox16_tool/src/lib.rs): Protocol::send_request.    *)
(*                                                                         *)
(* Nine specifications share the variables of the module:                  *)
(*   SpecCodec      drives the codec functions over bounded byte streams,  *)
(*   Spec           runs the dispatcher against a master's byte stream,    *)
(*   SpecStore      runs the storing handlers, the flash and restarts      *)
(*                  frame by frame, with the input task reading the store, *)
(*   SpecInput      runs the input task and the two reading handlers,      *)
(*   SpecThreshold  runs the threshold detectors over scripted scans and   *)
(*                  the two handlers that report them,                     *)
(*   SpecOutput     runs the handlers that set and read the PWM groups,    *)
(*   SpecExecutor   interleaves the dispatcher and the input task at       *)
(*                  their yield points,                                    *)
(*   SpecOversize   runs the dispatcher behind a header that claims more   *)
(*                  than the read buffer holds,                            *)
(*   SpecMaster     runs send_request calls against arriving responses.    *)
(***************************************************************************)
EXTENDS Integers, Sequences, FiniteSets, TLC

(***************************************************************************)
(* Bytes and bit operations                                                *)
(***************************************************************************)

RECURSIVE BitXor(_, _, _)
BitXor(a, b, n) ==
    IF n = 0 THEN 0
    ELSE (((a % 2) + (b % 2)) % 2) + 2 * BitXor(a \div 2, b \div 2, n - 1)

XorNibble == [a \in 0..15 |-> [b \in 0..15 |-> BitXor(a, b, 4)]]

\* 16-bit exclusive or, nibble by nibble.
Xor16(a, b) ==
      XorNibble[a % 16][b % 16]
    + 16 * XorNibble[(a \div 16) % 16][(b \div 16) % 16]
    + 256 * XorNibble[(a \div 256) % 16][(b \div 256) % 16]
    + 4096 * XorNibble[(a \div 4096) % 16][(b \div 4096) % 16]

\* !b on a u8.
Not8(b) == 255 - b

\* U16<LE> as two bytes.
LE16(v) == <<v % 256, (v \div 256) % 256>>

\* U32<LE> as four bytes.
LE32(v) == <<v % 256, (v \div 256) % 256, (v \div 65536) % 256, (v \div 16777216) % 256>>

\* U16<LE>::get on the two bytes at 1-based positions i, i+1.
GetLE16(bytes, i) == bytes[i] + 256 * bytes[i + 1]

\* bytes[from..to] with 0-based, end-exclusive Rust slice bounds.
Slice(bytes, from, to) == SubSeq(bytes, from + 1, to)

(***************************************************************************)
(* CRC-16/KERMIT: polynomial 0x1021 reflected (0x8408), init 0, xorout 0   *)
(***************************************************************************)

RECURSIVE CrcShift(_, _)
CrcShift(crc, n) ==
    IF n = 0 THEN crc
    ELSE CrcShift(IF crc % 2 = 1 THEN Xor16(crc \div 2, 33800) ELSE crc \div 2, n - 1)

CrcTable == [b \in 0..255 |-> CrcShift(b, 8)]

CrcUpdate(crc, byte) ==
    Xor16(crc \div 256, CrcTable[Xor16(crc % 256, byte)])

\* The running checksum over bytes[i..j], at most one block long. Each step's
\* value is computed before the next step starts (the test c >= 0 is always
\* true), which keeps the evaluation shallow.
RECURSIVE CrcBlock(_, _, _, _)
CrcBlock(bytes, i, j, crc) ==
    IF i > j THEN crc
    ELSE LET c == CrcUpdate(crc, bytes[i])
         IN  IF c >= 0 THEN CrcBlock(bytes, i + 1, j, c) ELSE 0

\* The running checksum over bytes[i..], block by block.
RECURSIVE CrcFold(_, _, _)
CrcFold(bytes, i, crc) ==
    IF i > Len(bytes) THEN crc
    ELSE LET j == IF i + 15 < Len(bytes) THEN i + 15 ELSE Len(bytes)
             c == CrcBlock(bytes, i, j, crc)
         IN  IF c >= 0 THEN CrcFold(bytes, j + 1, c) ELSE 0

\* CHECKSUM.checksum(bytes)
CHECKSUM(bytes) == CrcFold(bytes, 1, 0)

(***************************************************************************)
(* Protocol: commands, header, frames                                      *)
(***************************************************************************)

\* MAGIC = *b"OM"
MAGIC == <<79, 77>>

\* enum Command (#[repr(u16)])
Command ==
    [ Check |-> 0, InfoGet |-> 1, ConfigSet |-> 2, ConfigGet |-> 3,
      OutputSet |-> 4, OutputGet |-> 5, InputGet |-> 6, InputGetFull |-> 7,
      InputSetCalibrations |-> 8, InputGetCalibrations |-> 9,
      InputSetThresholds |-> 10, InputGetThresholds |-> 11,
      InputGetThresholdTimes |-> 12, InputGetThresholdStates |-> 13,
      Reboot |-> 14 ]

\* Command::try_from(u16) succeeds exactly on the discriminants of the enum.
CommandKnown(c) == c \in 0..14

\* size_of::<Header>() and size_of::<Footer>()
HeaderSize == 8
FooterSize == 2

\* size_of of the request payload types that slave_next decodes with
\* try_ref_from_bytes; the other requests are unit structs that slave_next
\* builds without looking at the payload.
RequestSize ==
    [c \in {Command.ConfigSet, Command.OutputSet,
            Command.InputSetCalibrations, Command.InputSetThresholds} |->
        CASE c = Command.ConfigSet -> 8
          [] c = Command.OutputSet -> 48
          [] c = Command.InputSetCalibrations -> 160
          [] c = Command.InputSetThresholds -> 160]

\* size_of of the response payload types that master_next decodes with
\* try_ref_from_bytes; the other responses are unit structs.
ResponseSize ==
    [c \in {Command.InfoGet, Command.ConfigGet, Command.OutputGet, Command.InputGet,
            Command.InputGetFull, Command.InputGetCalibrations,
            Command.InputGetThresholds, Command.InputGetThresholdTimes,
            Command.InputGetThresholdStates} |->
        CASE c = Command.InfoGet -> 40
          [] c = Command.ConfigGet -> 8
          [] c = Command.OutputGet -> 48
          [] c = Command.InputGet -> 32
          [] c = Command.InputGetFull -> 288
          [] c = Command.InputGetCalibrations -> 160
          [] c = Command.InputGetThresholds -> 160
          [] c = Command.InputGetThresholdTimes -> 264
          [] c = Command.InputGetThresholdStates -> 4]

\* The eight header bytes of a frame with a payload of `words` 32-bit words.
HeaderBytes(words, address, command) ==
    MAGIC \o <<words, Not8(words)>> \o LE16(address) \o LE16(command)

\* new_raw with the checksum taken over the header alone.
new_raw_header_checksum(address, command, payload) ==
    LET head == HeaderBytes(Len(payload) \div 4, address, command)
    IN  head \o payload \o LE16(CHECKSUM(head))

\* Message::new_raw(address, command, payload).as_bytes(); the asserts demand a
\* payload of a whole number of words, at most u8::MAX of them.
new_raw(address, command, payload) ==
    LET head == HeaderBytes(Len(payload) \div 4, address, command) \o payload
    IN  head \o LE16(CHECKSUM(head))

new_request(address, command, payload) == new_raw(address, command, payload)

new_response(address, command, payload) == new_raw(address, command, payload)

(***************************************************************************)
(* Frame hunter and typed decoders                                         *)
(***************************************************************************)

None == [some |-> FALSE]

\* bytes[0..MAGIC.len()] == MAGIC && bytes[MAGIC.len()] == !bytes[MAGIC.len() + 1]
\* on the slice that starts at 0-based offset `at`.
HeaderMarkerAt(bytes, at) ==
    /\ bytes[at + 1] = MAGIC[1]
    /\ bytes[at + 2] = MAGIC[2]
    /\ bytes[at + 3] = Not8(bytes[at + 4])

\* TooShort counting the marker's first byte as processed.
TooShortSkipsByte(bytes, at, processed) ==
    [msg |-> None, processed |-> processed + 1]

\* TooShort giving up the marker: the magic is counted as processed.
TooShortDropsMagic(bytes, at, processed) ==
    [msg |-> None, processed |-> processed + Len(MAGIC)]

\* What the hunter does at a header marker whose frame is incomplete: break.
TooShort(bytes, at, processed) ==
    [msg |-> None, processed |-> processed]

\* AfterBadChecksum walking on byte by byte.
AfterBadChecksumByte(at, length) == at + 1

\* Where the hunter goes on after a complete candidate with a wrong checksum:
\* bytes = &bytes[length..] (processed has already been advanced by length).
AfterBadChecksum(at, length) == at + length

\* One run of next_message's while loop from 0-based offset `at`.
RECURSIVE HuntFrom(_, _, _)
HuntFrom(bytes, at, processed) ==
    IF Len(bytes) - at < Len(MAGIC) + 2
    THEN [msg |-> None, processed |-> processed]
    ELSE IF HeaderMarkerAt(bytes, at)
    THEN IF Len(bytes) - at < HeaderSize
         THEN TooShort(bytes, at, processed)
         ELSE LET length == bytes[at + 3] * 4 + HeaderSize + FooterSize
              IN  IF Len(bytes) - at < length
                  THEN TooShort(bytes, at, processed)
                  ELSE LET payload  == Slice(bytes, at + HeaderSize, at + length - FooterSize)
                           footer   == GetLE16(bytes, at + length - FooterSize + 1)
                           checksum == CHECKSUM(Slice(bytes, at, at + length - FooterSize))
                       IN  IF footer = checksum
                           THEN [msg |-> [some    |-> TRUE,
                                          address |-> GetLE16(bytes, at + 5),
                                          command |-> GetLE16(bytes, at + 7),
                                          payload |-> payload],
                                 processed |-> processed + length]
                           ELSE HuntFrom(bytes, AfterBadChecksum(at, length), processed + length)
    ELSE HuntFrom(bytes, at + 1, processed + 1)

\* next_message(bytes) -> (Option<(&Header, &[u8])>, usize)
next_message(bytes) == HuntFrom(bytes, 0, 0)

\* AddressMismatch without the test.
AddressMismatchNever(address, frame_address) == FALSE

\* The address test of slave_next: address != header.address.
AddressMismatch(address, frame_address) == address # frame_address

\* Whether slave_next turns a frame of a known command into a request:
\* try_ref_from_bytes succeeds exactly on a payload of the type's size (the
\* payload types are Unaligned and valid for every bit pattern); the unit
\* requests are built without a look at the payload.
RequestDecodes(command, payload) ==
    command \in DOMAIN RequestSize => Len(payload) = RequestSize[command]

\* slave_next(buffer, address) -> (Option<Request>, usize)
slave_next(buffer, address) ==
    LET r == next_message(buffer)
    IN  IF ~r.msg.some THEN [req |-> None, processed |-> r.processed]
        ELSE IF AddressMismatch(address, r.msg.address)
        THEN [req |-> None, processed |-> r.processed]
        ELSE IF ~CommandKnown(r.msg.command)
        THEN [req |-> None, processed |-> r.processed]
        ELSE IF ~RequestDecodes(r.msg.command, r.msg.payload)
        THEN [req |-> None, processed |-> r.processed]
        ELSE [req |-> [some    |-> TRUE,
                       command |-> r.msg.command,
                       payload |-> IF r.msg.command \in DOMAIN RequestSize
                                   THEN r.msg.payload ELSE <<>>],
              processed |-> r.processed]

\* Whether master_next turns a frame of a known command into a response.
ResponseDecodes(command, payload) ==
    command \in DOMAIN ResponseSize => Len(payload) = ResponseSize[command]

\* master_next(buffer) -> (Option<(u16, Response)>, usize)
master_next(buffer) ==
    LET r == next_message(buffer)
    IN  IF ~r.msg.some THEN [res |-> None, processed |-> r.processed]
        ELSE IF ~CommandKnown(r.msg.command)
        THEN [res |-> None, processed |-> r.processed]
        ELSE IF ~ResponseDecodes(r.msg.command, r.msg.payload)
        THEN [res |-> None, processed |-> r.processed]
        ELSE [res |-> [some    |-> TRUE,
                       address |-> r.msg.address,
                       command |-> r.msg.command,
                       payload |-> IF r.msg.command \in DOMAIN ResponseSize
                                   THEN r.msg.payload ELSE <<>>],
              processed |-> r.processed]

(***************************************************************************)
(* Byte streams the codec is driven with                                   *)
(***************************************************************************)

\* Longest run of junk bytes put in front of a frame.
MaxJunk == 3
\* Most segments (frames, damaged frames, stray bytes) in a composed stream.
MaxSegs == 2
\* Payload words of the frames built for every command id.
MaxWords == 2

\* Addresses in play: the slave's own (0x1234), another device, and one whose
\* two bytes spell the magic.
Addr == [own |-> 4660, other |-> 5, magic |-> 19791]

\* Stray bytes: zero, 'O', 'M', the complement of 'O', all ones.
JunkBytes == {0, 79, 77, 176, 255}

RECURSIVE SeqsUpTo(_, _)
SeqsUpTo(S, n) ==
    IF n = 0 THEN {<<>>}
    ELSE LET shorter == SeqsUpTo(S, n - 1)
         IN  shorter \cup {Append(q, x) : q \in {t \in shorter : Len(t) = n - 1}, x \in S}

Zeros(n) == [i \in 1..n |-> 0]

\* A payload of n bytes that is not all zero and carries a header marker.
Pattern(n) == [i \in 1..n |-> CASE i % 4 = 1 -> 79 [] i % 4 = 2 -> 77
                                 [] i % 4 = 3 -> 0 [] OTHER -> 255]

Frame(address, command, payload) ==
    [kind |-> "frame", address |-> address, command |-> command,
     payload |-> payload, bytes |-> new_raw(address, command, payload)]

\* A well-formed frame whose checksum is off by one.
BadCrc(f) ==
    [f EXCEPT !.kind = "badcrc",
              !.bytes = [f.bytes EXCEPT ![Len(f.bytes)] = (@ + 1) % 256]]

Junk(bytes) == [kind |-> "junk", bytes |-> bytes]

\* Every command id (one beyond the enum included) with payloads of 0..MaxWords
\* words and of every size a decoder asks for, to the slave and to another device.
PayloadSizes ==
    {4 * w : w \in 0..MaxWords}
        \cup {RequestSize[c] : c \in DOMAIN RequestSize}
        \cup {ResponseSize[c] : c \in DOMAIN ResponseSize \ {Command.InputGetFull,
                                                            Command.InputGetThresholdTimes}}

Catalog ==
    {Frame(a, c, Zeros(n)) : a \in {Addr.own, Addr.other}, c \in 0..15, n \in PayloadSizes}

\* Short frames used behind junk and in composed streams.
SmallFrames ==
    { Frame(Addr.own, Command.Check, <<>>),
      Frame(Addr.other, Command.Check, <<>>),
      Frame(Addr.magic, Command.InfoGet, <<>>),
      Frame(Addr.own, Command.ConfigGet, Pattern(4)),
      Frame(Addr.own, Command.ConfigSet, Pattern(8)),
      Frame(Addr.own, Command.InputGetThresholdStates, Zeros(4)) }

\* A frame with a wrong checksum whose payload holds a complete valid frame.
Nested ==
    BadCrc(Frame(Addr.own, Command.InfoGet,
                 new_raw(Addr.own, Command.Check, <<>>) \o <<0, 0>>))

\* The first bytes of a frame, cut inside the header and inside the payload.
Truncated ==
    { [kind |-> "cut", bytes |-> SubSeq(f.bytes, 1, n)] :
        f \in {Frame(Addr.own, Command.ConfigSet, Pattern(8))}, n \in {4, 6, 12} }

\* The frames composed streams are made of.
ComposedFrames ==
    { Frame(Addr.own, Command.Check, <<>>),
      Frame(Addr.other, Command.Check, <<>>),
      Frame(Addr.own, Command.ConfigGet, Pattern(4)) }

Segments ==
    ComposedFrames \cup {BadCrc(f) : f \in ComposedFrames} \cup {Nested} \cup Truncated
        \cup {Junk(<<b>>) : b \in JunkBytes}

RECURSIVE Concat(_, _)
Concat(plan, i) == IF i > Len(plan) THEN <<>> ELSE plan[i].bytes \o Concat(plan, i + 1)

\* The streams: a catalog frame alone, a small frame behind junk, a composition
\* of segments.
Plans ==
    {<<f>> : f \in Catalog}
        \cup {<<Junk(j), f>> : j \in SeqsUpTo(JunkBytes, MaxJunk) \ {<<>>}, f \in SmallFrames}
        \cup SeqsUpTo(Segments, MaxSegs)

Functions == {"next_message", "slave_next", "master_next"}

\* The typed decoders are run on the single frames; streams with junk and
\* composed streams exercise the hunter, which both decoders call first.
FunctionsFor(p) ==
    IF Len(p) = 1 /\ p[1].kind = "frame" THEN Functions ELSE {"next_message"}

\* The whole stream given to the hunter at once, the hunter called until it
\* reports processed = 0.
RECURSIVE DrainAll(_, _, _)
DrainAll(bytes, msgs, cum) ==
    LET r == next_message(bytes)
    IN  IF r.processed = 0 THEN [msgs |-> msgs, cum |-> cum, rest |-> bytes]
        ELSE DrainAll(Slice(bytes, r.processed, Len(bytes)),
                      IF r.msg.some THEN Append(msgs, r.msg) ELSE msgs,
                      cum + r.processed)

(***************************************************************************)
(* nvm.rs: the non-volatile data and its image in the flash page           *)
(***************************************************************************)

\* `as i16`: the two's complement reading of the low 16 bits.
AsI16(v) == IF v % 65536 >= 32768 THEN (v % 65536) - 65536 ELSE v % 65536

\* A u32 is kept as its four little-endian bytes: the store and the
\* protocol only copy it, and 0xFFFF_FFFF has to be told from 0.
U32(v) == LE32(v)

GetU32(b, i) == <<b[i], b[i + 1], b[i + 2], b[i + 3]>>

\* The inputs of the board.
Channels == 16

\* The size of the flash page NonvolatileStorage reads and writes.
PageSize == 4096

\* size_of of the #[repr(C)] structs: Config is u16 + [u8; 2]; Calibration is
\* five i16; Threshold is i16, i16, u32, u16, [u8; 2]; NonvolatileData is a
\* Config, 16 Calibrations and 16 Thresholds without padding between them.
ConfigSize == 4

CalibrationSize == 10

ThresholdSize == 12

DataSize == ConfigSize + Channels * CalibrationSize + Channels * ThresholdSize

\* IntoBytes on a little-endian target, field by field.
ConfigBytes(c) == LE16(c.address) \o c._padding

CalibrationBytes(c) ==
    LE16(c.multiply % 65536) \o LE16(c.divide % 65536) \o LE16(c.add % 65536)
        \o LE16(c.min % 65536) \o LE16(c.max % 65536)

ThresholdBytes(t) ==
    LE16(t.threshold_high % 65536) \o LE16(t.threshold_low % 65536)
        \o t.debounce_time_us \o LE16(t.debounce_count) \o t._padding

\* data.write_to_prefix(&mut buf): the first DataSize bytes of the page.
write_to_prefix(data) ==
    ConfigBytes(data.config)
        \o [k \in 1..(Channels * CalibrationSize) |->
               CalibrationBytes(data.calibrations[((k - 1) \div CalibrationSize) + 1])
                   [((k - 1) % CalibrationSize) + 1]]
        \o [k \in 1..(Channels * ThresholdSize) |->
               ThresholdBytes(data.thresholds[((k - 1) \div ThresholdSize) + 1])
                   [((k - 1) % ThresholdSize) + 1]]

\* The fields read back from the bytes at 0-based offset `at`.
ConfigAt(b, at) ==
    [address |-> GetLE16(b, at + 1), _padding |-> <<b[at + 3], b[at + 4]>>]

CalibrationAtShifted(b, at) ==
    [multiply |-> AsI16(GetLE16(b, at + 1)),
     divide   |-> AsI16(GetLE16(b, at + 3)),
     add      |-> AsI16(GetLE16(b, at + 5)),
     min      |-> AsI16(GetLE16(b, at + 9)),
     max      |-> AsI16(GetLE16(b, at + 7))]

CalibrationAt(b, at) ==
    [multiply |-> AsI16(GetLE16(b, at + 1)),
     divide   |-> AsI16(GetLE16(b, at + 3)),
     add      |-> AsI16(GetLE16(b, at + 5)),
     min      |-> AsI16(GetLE16(b, at + 7)),
     max      |-> AsI16(GetLE16(b, at + 9))]

ThresholdAt(b, at) ==
    [threshold_high   |-> AsI16(GetLE16(b, at + 1)),
     threshold_low    |-> AsI16(GetLE16(b, at + 3)),
     debounce_time_us |-> GetU32(b, at + 5),
     debounce_count   |-> GetLE16(b, at + 9),
     _padding         |-> <<b[at + 11], b[at + 12]>>]

\* NonvolatileData::try_ref_from_prefix(&data).unwrap().0 followed by the
\* copy out of the reference: every bit pattern is a valid value.
try_ref_from_prefix(b) ==
    [config       |-> ConfigAt(b, 0),
     calibrations |-> [n \in 1..Channels |->
                          CalibrationAt(b, ConfigSize + (n - 1) * CalibrationSize)],
     thresholds   |-> [n \in 1..Channels |->
                          ThresholdAt(b, ConfigSize + Channels * CalibrationSize
                                             + (n - 1) * ThresholdSize)]]

\* The page write() receives: the data, then 0xFF up to the end of the page.
PageOf(prefix) == [k \in 1..PageSize |-> IF k <= Len(prefix) THEN prefix[k] ELSE 255]

\* A page whose every byte is 0xFF, as an erase leaves it.
ErasedPage == [k \in 1..PageSize |-> 255]

\* The struct default_nonvolatile_data() copies into the page.
DefaultCalibration ==
    [multiply |-> 1, divide |-> 1, add |-> 0, min |-> -32768, max |-> 32767]

DefaultThreshold ==
    [threshold_high |-> 32767, threshold_low |-> -32768, debounce_time_us |-> U32(0),
     debounce_count |-> 0, _padding |-> <<255, 255>>]

DefaultData ==
    [config       |-> [address |-> 65535, _padding |-> <<255, 255>>],
     calibrations |-> [n \in 1..Channels |-> DefaultCalibration],
     thresholds   |-> [n \in 1..Channels |-> DefaultThreshold]]

default_nonvolatile_data == PageOf(write_to_prefix(DefaultData))

\* impl From<pico_iox16_protocol::Config> for Config on the 8 payload bytes
\* of ConfigSet (address, baudrate, reserved): the address is kept, the
\* padding zeroed; the baudrate has no field to go to.
ConfigOfProtocol(payload) == [address |-> GetLE16(payload, 1), _padding |-> <<0, 0>>]

\* impl From<Config> for pico_iox16_protocol::Config: address and reserved.
ProtocolOfConfig(c) == [address |-> c.address, reserved |-> <<0, 0>>]

\* impl From<InputCalibration> for Calibration on the 10 bytes of one entry,
\* and back.
CalibrationOfProtocol(payload, n) == CalibrationAt(payload, (n - 1) * CalibrationSize)

ProtocolOfCalibration(c) == CalibrationBytes(c)

\* impl From<InputThreshold> for Threshold on the 10 bytes of one entry
\* (high, low, debounce_time_us, debounce_count), and back.
ThresholdOfProtocol(payload, n) ==
    LET at == (n - 1) * 10
    IN  [threshold_high   |-> AsI16(GetLE16(payload, at + 1)),
         threshold_low    |-> AsI16(GetLE16(payload, at + 3)),
         debounce_time_us |-> GetU32(payload, at + 5),
         debounce_count   |-> GetLE16(payload, at + 9),
         _padding         |-> <<255, 255>>]

ProtocolOfThreshold(t) ==
    LE16(t.threshold_high % 65536) \o LE16(t.threshold_low % 65536)
        \o t.debounce_time_us \o LE16(t.debounce_count)

\* a / b of Rust's signed integers: the quotient rounded toward zero.
FloorDiv(a, b) == IF b > 0 THEN a \div b ELSE (-a) \div (-b)

\* (Written so that the dividend -2^31 is not negated.)
TruncDiv(a, b) ==
    LET m == IF b < 0 THEN -b ELSE b
        f == a \div m
        q == IF a < 0 /\ f * m # a THEN f + 1 ELSE f
    IN  IF b < 0 THEN -q ELSE q

\* Calibration::apply panics on a division by zero and, in clamp, on
\* min > max.
apply_panics(c) == c.divide = 0 \/ c.min > c.max

\* Calibration::apply(&self, value: u16) -> i16 where it does not panic. A
\* u16 times an i16, the quotient and the sum with another i16 all stay
\* inside an i32, so the i32 operations are the integer ones.
apply(c, value) ==
    LET scaled == TruncDiv(value * c.multiply, c.divide) + c.add
        clamped == IF scaled < c.min THEN c.min
                   ELSE IF scaled > c.max THEN c.max ELSE scaled
    IN  AsI16(clamped)

(***************************************************************************)
(* input.rs: the per-input accumulator                                     *)
(***************************************************************************)

\* sum_squares is a u64, kept as two limbs in base 2^30: hi * 2^30 + lo. Its
\* largest value, 2^16 squares of -32768, is far from the u64 limit.
Limb == 32768 * 32768

U64(v) == [hi |-> v \div Limb, lo |-> v % Limb]

U64Add(a, v) == [hi |-> a.hi + (a.lo + v) \div Limb, lo |-> (a.lo + v) % Limb]

U64Div4(a) == [hi |-> a.hi \div 4, lo |-> (a.hi % 4) * (Limb \div 4) + a.lo \div 4]

\* InputData::new().
InputData_new ==
    [previous_value |-> 0, sum |-> 0, sum_squares |-> U64(0),
     min |-> 32767, max |-> -32768, count |-> 0]

\* a % b of Rust's signed integers: the remainder has the sign of a.
TruncRem(a, b) == a - b * TruncDiv(a, b)

\* i16::min and i16::max as update uses them.
min16_keep(a, b) == a

min16(a, b) == IF b < a THEN b ELSE a

max16(a, b) == IF b > a THEN b ELSE a

\* The halving with the sum left as it was.
HalvedKeepsSum(d) ==
    [d EXCEPT !.sum_squares = U64Div4(U64Add(d.sum_squares,
                                             1 + ((d.sum_squares.lo \div 2) % 2))),
              !.count = 32768]

\* The halving InputData::update does when count wraps to 0:
\* sum = (sum + 1 - (1 - sum % 2)) / 2 and
\* sum_squares = (sum_squares + 2 - (1 - sum_squares / 2 % 2)) / 4.
Halved(d) ==
    [d EXCEPT !.sum = TruncDiv(d.sum + 1 - (1 - TruncRem(d.sum, 2)), 2),
              !.sum_squares = U64Div4(U64Add(d.sum_squares,
                                             1 + ((d.sum_squares.lo \div 2) % 2))),
              !.count = 32768]

\* The additions of InputData::update that leave their type: self.sum +=
\* value as i32 past an end of the i32, self.sum_squares += .. past 2^64.
\* (value as i32 * value as i32 is at most 2^30.)
AddOverflows(a, v) ==
    IF v >= 0 THEN a > 2147483647 - v ELSE a < (-2147483647 - 1) - v

update_overflows(d, value) ==
    \/ AddOverflows(d.sum, value)
    \/ U64Add(d.sum_squares, value * value).hi \div 16384 >= 1024 * 1024

\* InputData::update(self, value: i16) where no addition overflows: count is
\* a u16 and wraps.
update(d, value) ==
    LET next == [d EXCEPT !.sum = d.sum + value,
                            !.sum_squares = U64Add(d.sum_squares, value * value),
                            !.min = min16(d.min, value),
                            !.max = max16(d.max, value),
                            !.count = (d.count + 1) % 65536]
    IN  IF next.count = 0 THEN Halved(next) ELSE next

\* The avg of the InputGet and InputGetFull handlers.
AverageFloor(d) ==
    IF d.count = 0 THEN d.previous_value ELSE AsI16(FloorDiv(d.sum, d.count))

AverageStale(d) ==
    IF d.count = 0 THEN 0 ELSE AsI16(TruncDiv(d.sum, d.count))

Average(d) ==
    IF d.count = 0 THEN d.previous_value ELSE AsI16(TruncDiv(d.sum, d.count))

\* v.set(InputData { previous_value: avg, ..InputData::default() }).
ResetTo(avg) == [InputData_new EXCEPT !.previous_value = avg]

\* impl From<InputData> for InputStat.
InputStat(d) ==
    [sum |-> d.sum, sum_squares |-> d.sum_squares, min |-> d.min, max |-> d.max,
     count |-> d.count]

(***************************************************************************)
(* input.rs: the per-input threshold detector                              *)
(***************************************************************************)

\* Duration::micros(threshold.debounce_time_us as u64) on the 1 MHz timer:
\* the u32 read from its four little-endian bytes. Instants of the model
\* stay below 2^31, so a debounce time with the top bit set exceeds every
\* elapsed time.
Elapsed(elapsed, micros) ==
    IF micros[4] >= 128 THEN FALSE
    ELSE elapsed >= micros[1] + 256 * micros[2] + 65536 * micros[3]
                        + 65536 * 256 * micros[4]

\* u16::wrapping_add(1) and u16::saturating_add(1).
wrapping_add(count) == (count + 1) % 65536

saturating_add(count) == IF count = 65535 THEN 65535 ELSE count + 1

\* ThresholdData::new(now).
ThresholdData_new(start) ==
    [last_above_threshold |-> start, last_below_threshold |-> start,
     above_count |-> 0, below_count |-> 0,
     last_above_threshold_debounced |-> start,
     last_below_threshold_debounced |-> start]

\* let above_threshold / let below_threshold of ThresholdData::update.
above_threshold(value, threshold) == value > threshold.threshold_high

below_threshold(value, threshold) == value < threshold.threshold_low

\* The test that copies the raw crossing time to the debounced one; count
\* is the counter before this sample is counted.
DebouncedByCount(count, at, since, threshold) ==
    count >= threshold.debounce_count

Debounced(count, at, since, threshold) ==
    /\ count >= threshold.debounce_count
    /\ Elapsed(at - since, threshold.debounce_time_us)

\* The half that records the instant the debounce test is first met.
UpdateAboveWhenMet(t, value, at, threshold) ==
    IF above_threshold(value, threshold)
    THEN LET first == IF t.above_count = 0 THEN at ELSE t.last_above_threshold
         IN  [t EXCEPT !.last_above_threshold = first,
                       !.last_above_threshold_debounced =
                           IF Debounced(t.above_count, at, first, threshold)
                           THEN at ELSE @,
                       !.above_count = saturating_add(@)]
    ELSE [t EXCEPT !.above_count = 0]

\* The `if above_threshold { .. } else { .. }` half of ThresholdData::update.
UpdateAbove(t, value, at, threshold) ==
    IF above_threshold(value, threshold)
    THEN LET first == IF t.above_count = 0 THEN at ELSE t.last_above_threshold
         IN  [t EXCEPT !.last_above_threshold = first,
                       !.last_above_threshold_debounced =
                           IF Debounced(t.above_count, at, first, threshold)
                           THEN first ELSE @,
                       !.above_count = saturating_add(@)]
    ELSE [t EXCEPT !.above_count = 0]

\* The `if below_threshold { .. } else { .. }` half.
UpdateBelow(t, value, at, threshold) ==
    IF below_threshold(value, threshold)
    THEN LET first == IF t.below_count = 0 THEN at ELSE t.last_below_threshold
         IN  [t EXCEPT !.last_below_threshold = first,
                       !.last_below_threshold_debounced =
                           IF Debounced(t.below_count, at, first, threshold)
                           THEN first ELSE @,
                       !.below_count = saturating_add(@)]
    ELSE [t EXCEPT !.below_count = 0]

\* ThresholdData::update(self, value, now, threshold).
threshold_update(t, value, at, threshold) ==
    UpdateBelow(UpdateAbove(t, value, at, threshold), value, at, threshold)

\* The bits of input n in the InputGetThresholdStates response.
StateAboveStrict(t) == t.last_above_threshold_debounced > t.last_below_threshold_debounced

StateAbove(t) == t.last_above_threshold_debounced >= t.last_below_threshold_debounced

StateBelow(t) == t.last_below_threshold_debounced >= t.last_above_threshold_debounced

\* One entry of the InputGetThresholdTimes response.
ThresholdTimes(t) ==
    [last_low |-> t.last_below_threshold_debounced,
     last_high |-> t.last_above_threshold_debounced]

\* The successor of each position in plain binary order.
BinaryIncrement == <<1, 2, 3, 4, 5, 6, 7, 0>>

\* const GRAY_CODE_INCREMENT: [u8; 8], indexed from 0.
GRAY_CODE_INCREMENT == <<1, 3, 6, 2, 0, 4, 7, 5>>

(***************************************************************************)
(* State                                                                   *)
(***************************************************************************)

VARIABLES
    \* -- codec runs (SpecCodec) --
    plan,       \* the segments the stream is made of
    fn,         \* which codec function the run calls
    bytewise,   \* whether the stream is appended one byte at a time
    fed,        \* bytes of the stream appended to the buffer so far
    hbuf,       \* the caller's buffer
    hpc,        \* "feed": append to the buffer; "hunt": call the function
    last,       \* the latest call: its input buffer and what it returned
    msgs,       \* messages returned so far, in order
    cum,        \* sum of the processed counts returned so far
    \* -- MainLoop::run and write_all_bytes (Spec) --
    pc,           \* where run stands
    buf,          \* let mut buf = [0; 256], up to the highest index written
                  \* so far: the elements behind it still hold the initial 0
    buf_len,      \* let mut buf_len
    last_receive, \* let mut last_receive
    address,      \* let address = nvm.get().config.address
    processed,    \* the count slave_next returned in this iteration
    request,      \* the request being handled
    reply,        \* the framed response handed to write_all_bytes
    preamble,     \* write_all_bytes: let mut preamble
    bytes,        \* write_all_bytes: let mut bytes
    until,        \* wait_until's deadline
    error,        \* the MainLoopError run returned, "none" while it runs
    \* -- the board --
    now,          \* the timer's counter, in microseconds
    nvm,          \* the data Nvm holds
    wire,         \* bytes the master has sent that no read has delivered yet
    errs,         \* recoverable read errors so far
    line,         \* level of the TX-enable pin
    idle,         \* the transmitter has reported idle since the last write
    out,          \* bytes written since TX-enable was last raised
    \* -- observations --
    inbuf,        \* buf[..buf_len] when the inner loop was entered
    replies,      \* the replies sent since the inner loop was entered
    lastRead      \* what the latest read returned and what preceded it

VARIABLES
    \* -- Nvm and the handlers that use it (SpecStore) --
    flash,        \* the first size_of::<NonvolatileData>() bytes of the flash
                  \* page; the bytes behind them are 0xFF throughout
    cell,         \* Nvm.0, the cached NonvolatileData
    run_address,  \* let address = nvm.get().config.address of the running loop
    main,         \* the main task: "idle", "write" (inside Nvm::set), "done"
    held,         \* the request whose handler is awaiting the flash write
    response,     \* the latest response the main task wrote
    frame,        \* the latest frame received
    frames,       \* frames received since power-up
    lastSet,      \* the latest answered ConfigSet and whether a boot followed
    \* -- InputLoop (SpecInput) --
    sel,          \* InputLoop::run: let mut i
    half,         \* 0: the next reading is input i, 1: input i + 8
    inputs,       \* InputLoop.inputs, the 16 accumulators
    engine,       \* the input task: "run" or "panicked"
    samples,      \* readings taken since power-up
    folded,       \* per input, the values folded since its last read-and-reset
    sample,       \* the latest reading and what Calibration::apply made of it
    thresholds,   \* InputLoop.thresholds, the 16 ThresholdData
    ticks,        \* the latest timer.now() of the input task
    feed,         \* the readings and timer steps of the scans still to come
    \* -- the PWM slices (SpecOutput) --
    pwm           \* per slice: frequency, the two duty cycles, the two
                  \* max_duty_cycle() of the board

VARIABLES
    \* -- block_on(select(control, input)) (SpecExecutor) --
    turn,         \* the future select polls next: "control" or "input";
                  \* "returned" once block_on has returned
    returned,     \* the error main_loop returned, "none" while it runs
    ipc,          \* where InputLoop::run stands
    mux,          \* the levels of the three select lines, select0 the lowest bit
    adc,          \* the conversion the ADC was last started for
    stamps,       \* v0, now0, v1, now1 of the iteration under way
    events,       \* what the input task has done in this iteration, in order
    counted,      \* sum of the counts the readouts have taken so far
    \* -- Protocol::send_request of the tool (SpecMaster) --
    master_buf,   \* Protocol.buf[..buf_len]
    master_wire,  \* bytes the slaves have sent that no read has delivered yet
    call,         \* the send_request under way
    calls,        \* send_request calls made so far
    outcome,      \* what the latest send_request returned
    examined      \* per response frame, the calls master_next returned it to

cvars == <<plan, fn, bytewise, fed, hbuf, hpc, last, msgs, cum>>

dvars == <<pc, buf, buf_len, last_receive, address, processed, request, reply,
           preamble, bytes, until, error, now, nvm, wire, errs, line, idle, out,
           inbuf, replies, lastRead>>

svars == <<flash, cell, run_address, main, held, response, frame, frames, lastSet>>

ivars == <<sel, half, inputs, engine, samples, folded, sample>>

tvars == <<thresholds, ticks, feed>>

ovars == <<pwm>>

evars == <<turn, returned, ipc, mux, adc, stamps, events, counted>>

mvars == <<master_buf, master_wire, call, calls, outcome, examined>>

yvars == <<evars, mvars>>

xvars == <<svars, ivars, tvars, ovars, yvars>>

vars == <<cvars, dvars, xvars>>

Stream == Concat(plan, 1)

NoCall == [called |-> FALSE]

\* let mut buf = [0; 256]: the capacity of the read buffer.
BufSize == 256

\* The address the device is configured with when it boots.
BootNvm == [config |-> [address |-> Addr.own]]

\* MainLoop::new and the first statements of run, on a board whose timer
\* starts at 0: nothing received, nothing sent, TX-enable low.
Boot ==
    /\ pc = "read"
    /\ buf = <<>>
    /\ buf_len = 0
    /\ last_receive = 0
    /\ address = BootNvm.config.address
    /\ processed = 0
    /\ request = None
    /\ reply = <<>>
    /\ preamble = 0
    /\ bytes = <<>>
    /\ until = 0
    /\ error = "none"
    /\ now = 0
    /\ nvm = BootNvm
    /\ errs = 0
    /\ line = FALSE
    /\ idle = TRUE
    /\ out = <<>>
    /\ inbuf = <<>>
    /\ replies = <<>>
    /\ lastRead = [kind |-> "boot"]

\* Nvm::new, MainLoop::run's first statements and InputLoop::new on a board
\* whose flash page starts with `image`.
PowerUp(image) ==
    /\ flash = image
    /\ cell = try_ref_from_prefix(image)
    /\ run_address = try_ref_from_prefix(image).config.address
    /\ main = "idle"
    /\ held = None
    /\ response = None
    /\ frame = None
    /\ frames = 0
    /\ lastSet = None
    /\ sel = 0
    /\ half = 0
    /\ engine = "run"
    /\ samples = 0
    /\ sample = None

\* The factory data after a ConfigSet gave the device the address it boots
\* with.
BootData ==
    [DefaultData EXCEPT !.config = [address |-> BootNvm.config.address,
                                    _padding |-> <<0, 0>>]]

\* InputLoop::new(now): every ThresholdData starts with the instant
\* MainLoop::new read from the timer.
InputStart(start) ==
    /\ ticks = start
    /\ thresholds = [n \in 1..Channels |-> ThresholdData_new(start)]

\* The executor is not part of the specifications that run one task or one
\* handler at a time.
ExecutorIdle ==
    /\ turn = "control"
    /\ returned = "none"
    /\ ipc = "start0"
    /\ mux = 0
    /\ adc = None
    /\ stamps = None
    /\ events = <<>>
    /\ counted = 0

\* The tool is not part of the specifications of the firmware.
MasterIdle ==
    /\ master_buf = <<>>
    /\ master_wire = <<>>
    /\ call = None
    /\ calls = 0
    /\ outcome = None
    /\ examined = <<>>

\* The store and the input task are not part of the codec and dispatcher
\* specifications: their variables are parked.
StoreIdle ==
    /\ ExecutorIdle
    /\ MasterIdle
    /\ flash = <<>>
    /\ cell = None
    /\ run_address = BootNvm.config.address
    /\ main = "idle"
    /\ held = None
    /\ response = None
    /\ frame = None
    /\ frames = 0
    /\ lastSet = None
    /\ sel = 0
    /\ half = 0
    /\ inputs = <<>>
    /\ engine = "run"
    /\ samples = 0
    /\ folded = <<>>
    /\ sample = None
    /\ thresholds = <<>>
    /\ ticks = 0
    /\ feed = <<>>
    /\ pwm = <<>>

CodecInit ==
    /\ plan \in Plans
    /\ fn \in FunctionsFor(plan)
    /\ bytewise \in BOOLEAN
    /\ fed = 0
    /\ hbuf = <<>>
    /\ hpc = "feed"
    /\ last = NoCall
    /\ msgs = <<>>
    /\ cum = 0
    /\ Boot
    /\ wire = <<>>
    /\ StoreIdle

\* The caller appends the whole stream to its buffer.
FeedAll ==
    /\ hpc = "feed"
    /\ ~bytewise
    /\ fed = 0
    /\ Len(Stream) > 0
    /\ hbuf' = Stream
    /\ fed' = Len(Stream)
    /\ hpc' = "hunt"
    /\ UNCHANGED <<plan, fn, bytewise, last, msgs, cum>>
    /\ UNCHANGED <<dvars, xvars>>

\* The caller appends the next byte of the stream to its buffer.
FeedByte ==
    /\ hpc = "feed"
    /\ bytewise
    /\ fed < Len(Stream)
    /\ hbuf' = Append(hbuf, Stream[fed + 1])
    /\ fed' = fed + 1
    /\ hpc' = "hunt"
    /\ UNCHANGED <<plan, fn, bytewise, last, msgs, cum>>
    /\ UNCHANGED <<dvars, xvars>>

\* The caller's bookkeeping after a call: remember the message, drop the
\* processed bytes, call again unless processed = 0.
Called(result, count) ==
    /\ last' = [called |-> TRUE, buf |-> hbuf, result |-> result, processed |-> count]
    /\ msgs' = IF result.some THEN Append(msgs, result) ELSE msgs
    /\ cum' = cum + count
    /\ hbuf' = Slice(hbuf, count, Len(hbuf))
    /\ hpc' = IF count = 0 THEN "feed" ELSE "hunt"
    /\ UNCHANGED <<plan, fn, bytewise, fed>>
    /\ UNCHANGED <<dvars, xvars>>

CallNextMessage ==
    /\ hpc = "hunt"
    /\ fn = "next_message"
    /\ LET r == next_message(hbuf) IN Called(r.msg, r.processed)

CallSlaveNext ==
    /\ hpc = "hunt"
    /\ fn = "slave_next"
    /\ LET r == slave_next(hbuf, Addr.own) IN Called(r.req, r.processed)

CallMasterNext ==
    /\ hpc = "hunt"
    /\ fn = "master_next"
    /\ LET r == master_next(hbuf) IN Called(r.res, r.processed)

CodecNext ==
    \/ FeedAll
    \/ FeedByte
    \/ CallNextMessage
    \/ CallSlaveNext
    \/ CallMasterNext

SpecCodec == CodecInit /\ [][CodecNext]_vars

(***************************************************************************)
(* MainLoop::run and write_all_bytes                                       *)
(***************************************************************************)

\* Latest instant the timer reaches.
MaxNow == 1001
\* Most recoverable read errors in one run.
MaxReadErrors == 1

\* How far the timer moves while the task has yielded.
TickSteps == {500, 501}

\* The frames and fragments the master sends to the dispatcher.
WireSegments ==
    { Frame(Addr.own, Command.Check, <<>>),
      Frame(Addr.other, Command.Check, <<>>),
      Frame(Addr.own, Command.Check, Zeros(4)),
      Frame(Addr.own, Command.ConfigSet, LE16(Addr.other) \o LE32(115200) \o <<0, 0>>),
      Frame(Addr.own, Command.ConfigSet, Zeros(4)),
      Frame(Addr.own, 15, <<>>),
      Frame(Addr.own, Command.Reboot, <<>>),
      BadCrc(Frame(Addr.own, Command.Check, <<>>)),
      [kind |-> "cut", bytes |-> SubSeq(new_raw(Addr.own, Command.Check, <<>>), 1, 6)] }

\* What the master sends in one run: one segment, a segment and then a Check
\* or a ConfigSet, or an InfoGet.
WirePlans ==
    {<<a>> : a \in WireSegments}
        \cup {<<a, b>> : a \in WireSegments,
                         b \in {f \in WireSegments :
                                    /\ f.kind = "frame"
                                    /\ f.address = Addr.own
                                    /\ f.command \in {Command.Check, Command.ConfigSet}
                                    /\ Len(f.payload) \in {0, 8}}}
        \cup {<<Frame(Addr.own, Command.InfoGet, <<>>)>>}

\* The bytes of the wire up to the end of the segment that is arriving.
RECURSIVE SegmentEnd(_, _, _)
SegmentEnd(p, i, sent) ==
    IF i > Len(p) THEN 0
    ELSE IF sent < Len(p[i].bytes) THEN Len(p[i].bytes) - sent
    ELSE SegmentEnd(p, i + 1, sent - Len(p[i].bytes))

\* How many bytes a read finds: none, the first bytes of a header, the rest of
\* the arriving segment, or all the master has sent.
ReadSizes(p, pending) ==
    {0, 6, SegmentEnd(p, 1, Len(Concat(p, 1)) - Len(pending)), Len(pending)}

\* How many bytes the transmitter takes of a write: all, or the first half.
WriteSizes(rest) == {(Len(rest) + 1) \div 2, Len(rest)}

\* MainLoop::new: started = timer.now(), on a timer that starts at 0.
started == 0

\* timer.elapsed(last_receive).to_micros() > 1000
GapExpired(t, since) == t - since > 1000

\* buf_len after a read error, kept as it was.
AfterReadErrorKeeps(len) == len

\* buf_len after a read error: buf_len = 0.
AfterReadError(len) == 0

\* The read has stored `data` at buf[buf_len..].
Stored(b, len, data) ==
    [i \in 1..(IF Len(b) > len + Len(data) THEN Len(b) ELSE len + Len(data)) |->
        IF i > len /\ i <= len + Len(data) THEN data[i - len] ELSE b[i]]

\* buf.copy_within(from..to, 0)
copy_within(b, from, to) ==
    [i \in 1..Len(b) |-> IF i <= to - from THEN b[i + from] ELSE b[i]]

\* The UTF-8 bytes of the info string of the InfoGet handler.
InfoBytes ==
    <<80, 105, 99, 111, 32, 73, 226, 136, 180, 79, 195, 151, 49, 54, 32, 118, 49, 46, 48>>

\* InfoGetRes { info, firmware_version_major: 0, firmware_version_minor: 1,
\* firmware_version_patch: 0, uptime: (timer.now() - self.started).to_secs() }
InfoGetRes(t) ==
    InfoBytes \o Zeros(32 - Len(InfoBytes)) \o <<0, 1>> \o LE16(0)
        \o LE32((t - started) \div 1000000)

\* The commands whose handlers run in these runs.
Handled == {Command.Check, Command.InfoGet, Command.ConfigSet, Command.Reboot}

\* The response payload the handler of `req` returns at instant t.
ResponsePayload(req, t) ==
    IF req.command = Command.InfoGet THEN InfoGetRes(t) ELSE <<>>

\* impl From<pico_iox16_protocol::Config> for Config: the address is kept.
ConfigFrom(payload) == [address |-> GetLE16(payload, 1)]

\* What the handler of `req` leaves in Nvm: ConfigSet replaces the config
\* (Nvm::set stores the data before it writes the flash).
NvmAfter(req, data) ==
    IF req.command = Command.ConfigSet
    THEN [data EXCEPT !.config = ConfigFrom(req.payload)]
    ELSE data

\* The address a reply is framed with, taken from Nvm as it stands.
ReplyAddressLive(boot_address, data) == data.config.address

\* The address a reply is framed with: the one run read when it started.
ReplyAddress(boot_address, data) == boot_address

\* The rest of the payload after a write of `written` bytes, a partial write
\* taken for a complete one.
AfterWriteAll(rest, written) == <<>>

\* bytes = &bytes[written..]
AfterWrite(rest, written) == SubSeq(rest, written + 1, Len(rest))

\* The task has yielded and is polled again d microseconds later.
Pass(d) == now + d <= MaxNow /\ now' = now + d

\* The end of an iteration of the inner loop: break on processed = 0, else
\* buf.copy_within(processed..buf_len, 0); buf_len -= processed.
EndIteration(count) ==
    IF count = 0
    THEN pc' = "yield" /\ UNCHANGED <<buf, buf_len>>
    ELSE /\ pc' = "hunt"
         /\ buf' = copy_within(buf, count, buf_len)
         /\ buf_len' = buf_len - count

Init ==
    /\ plan \in WirePlans
    /\ fn = "slave_next"
    /\ bytewise = FALSE
    /\ fed = 0
    /\ hbuf = <<>>
    /\ hpc = "feed"
    /\ last = NoCall
    /\ msgs = <<>>
    /\ cum = 0
    /\ Boot
    /\ wire = Stream
    /\ StoreIdle

\* io.read returns Err(WouldBlock): nb_await! yields.
ReadWouldBlock ==
    /\ pc = "read"
    /\ \E d \in TickSteps : Pass(d)
    /\ UNCHANGED <<cvars, xvars, pc, buf, buf_len, last_receive, address, processed, request,
                   reply, preamble, bytes, until, error, nvm, wire, errs, line, idle,
                   out, inbuf, replies, lastRead>>

\* io.read returns Ok(received): the bytes are in buf[buf_len..]; then the gap
\* test, then the bookkeeping of the received bytes.
ReadOk ==
    /\ pc = "read"
    /\ \E received \in {n \in ReadSizes(plan, wire) :
                            n <= Len(wire) /\ n <= BufSize - buf_len} :
        LET data == SubSeq(wire, 1, received)
            gap  == GapExpired(now, last_receive)
            kept == IF gap THEN 0 ELSE buf_len
            len  == IF received > 0 THEN kept + received ELSE kept
        IN  /\ buf' = Stored(buf, buf_len, data)
            /\ buf_len' = len
            /\ last_receive' = IF received > 0 THEN now ELSE last_receive
            /\ wire' = SubSeq(wire, received + 1, Len(wire))
            /\ inbuf' = SubSeq(buf', 1, len)
            /\ lastRead' = [kind |-> "ok", delivered |-> data, gap |-> gap,
                            held |-> buf_len, after |-> lastRead.kind]
    /\ replies' = <<>>
    /\ pc' = "hunt"
    /\ UNCHANGED <<cvars, xvars, address, processed, request, reply, preamble, bytes, until,
                   error, now, nvm, errs, line, idle, out>>

\* io.read returns Err(RecoverableError): buf_len = 0; continue.
ReadRecoverable ==
    /\ pc = "read"
    /\ errs < MaxReadErrors
    /\ errs' = errs + 1
    /\ buf_len' = AfterReadError(buf_len)
    /\ lastRead' = [kind |-> "recoverable", after |-> lastRead.kind]
    /\ UNCHANGED <<cvars, xvars, pc, buf, last_receive, address, processed, request, reply,
                   preamble, bytes, until, error, now, nvm, wire, line, idle, out,
                   inbuf, replies>>

\* io.read returns Err(UnrecoverableError(e)): buf_len = 0;
\* return Err(MainLoopError::Read(e)).
ReadUnrecoverable ==
    /\ pc = "read"
    /\ buf_len' = AfterReadError(buf_len)
    /\ pc' = "done"
    /\ error' = "Read"
    /\ lastRead' = [kind |-> "unrecoverable", after |-> lastRead.kind]
    /\ UNCHANGED <<cvars, xvars, buf, last_receive, address, processed, request, reply,
                   preamble, bytes, until, now, nvm, wire, errs, line, idle, out,
                   inbuf, replies>>

\* slave_next(&buf[..buf_len], address)
Hunted == slave_next(SubSeq(buf, 1, buf_len), address)

\* slave_next returns no request: the processed bytes are dropped, or the
\* inner loop ends.
HuntNone ==
    /\ pc = "hunt"
    /\ ~Hunted.req.some
    /\ processed' = Hunted.processed
    /\ request' = None
    /\ EndIteration(Hunted.processed)
    /\ UNCHANGED <<cvars, xvars, last_receive, address, reply, preamble, bytes, until, error,
                   now, nvm, wire, errs, line, idle, out, inbuf, replies, lastRead>>

\* slave_next returns a request: its handler runs and the response is framed
\* for write_all_bytes.
HuntRequest ==
    /\ pc = "hunt"
    /\ Hunted.req.some
    /\ Hunted.req.command \in Handled
    /\ processed' = Hunted.processed
    /\ request' = Hunted.req
    /\ nvm' = NvmAfter(Hunted.req, nvm)
    /\ reply' = new_response(ReplyAddress(address, nvm'), Hunted.req.command,
                             ResponsePayload(Hunted.req, now))
    /\ pc' = "tx_high"
    /\ UNCHANGED <<cvars, xvars, buf, buf_len, last_receive, address, preamble, bytes, until,
                   error, now, wire, errs, line, idle, out, inbuf, replies, lastRead>>

\* The flash write of Nvm::set fails in the ConfigSet handler:
\* return Err(MainLoopError::Nvm(e)).
HuntNvmError ==
    /\ pc = "hunt"
    /\ Hunted.req.some
    /\ Hunted.req.command = Command.ConfigSet
    /\ processed' = Hunted.processed
    /\ request' = Hunted.req
    /\ nvm' = NvmAfter(Hunted.req, nvm)
    /\ pc' = "done"
    /\ error' = "Nvm"
    /\ UNCHANGED <<cvars, xvars, buf, buf_len, last_receive, address, reply, preamble, bytes,
                   until, now, wire, errs, line, idle, out, inbuf, replies, lastRead>>

\* write_all_bytes: io_send.set_high(); let mut preamble = 2.
TxHigh ==
    /\ pc = "tx_high"
    /\ line' = TRUE
    /\ out' = <<>>
    /\ preamble' = 2
    /\ bytes' = reply
    /\ pc' = "preamble"
    /\ UNCHANGED <<cvars, xvars, buf, buf_len, last_receive, address, processed, request,
                   reply, until, error, now, nvm, wire, errs, idle, inbuf, replies,
                   lastRead>>

\* io_send.set_high() / set_low() fails: return Err(MainLoopError::IoSend(e)).
IoSendError ==
    /\ pc \in {"tx_high", "tx_low"}
    /\ pc' = "done"
    /\ error' = "IoSend"
    /\ UNCHANGED <<cvars, xvars, buf, buf_len, last_receive, address, processed, request,
                   reply, preamble, bytes, until, now, nvm, wire, errs, line, idle,
                   out, inbuf, replies, lastRead>>

\* io.write(&[0xFF]) returns Ok(written): preamble -= written.
WritePreamble ==
    /\ pc = "preamble"
    /\ out' = Append(out, 255)
    /\ idle' = FALSE
    /\ preamble' = preamble - 1
    /\ pc' = IF preamble' > 0 THEN "preamble"
             ELSE IF bytes = <<>> THEN "flush" ELSE "body"
    /\ UNCHANGED <<cvars, xvars, buf, buf_len, last_receive, address, processed, request,
                   reply, bytes, until, error, now, nvm, wire, errs, line, inbuf,
                   replies, lastRead>>

\* io.write(bytes) returns Ok(written), written > 0 (the assert): however many
\* bytes the transmitter took.
WriteBody ==
    /\ pc = "body"
    /\ \E written \in WriteSizes(bytes) :
        /\ out' = out \o SubSeq(bytes, 1, written)
        /\ bytes' = AfterWrite(bytes, written)
    /\ idle' = FALSE
    /\ pc' = IF bytes' = <<>> THEN "flush" ELSE "body"
    /\ UNCHANGED <<cvars, xvars, buf, buf_len, last_receive, address, processed, request,
                   reply, preamble, until, error, now, nvm, wire, errs, line, inbuf,
                   replies, lastRead>>

\* io.write or io.flush returns Err(WouldBlock): nb_await! yields.
WriteWouldBlock ==
    /\ pc \in {"preamble", "body", "flush"}
    /\ \E d \in TickSteps : Pass(d)
    /\ UNCHANGED <<cvars, xvars, pc, buf, buf_len, last_receive, address, processed, request,
                   reply, preamble, bytes, until, error, nvm, wire, errs, line, idle,
                   out, inbuf, replies, lastRead>>

\* io.write or io.flush fails: return Err(MainLoopError::Write(e)).
WriteError ==
    /\ pc \in {"preamble", "body", "flush"}
    /\ pc' = "done"
    /\ error' = "Write"
    /\ UNCHANGED <<cvars, xvars, buf, buf_len, last_receive, address, processed, request,
                   reply, preamble, bytes, until, now, nvm, wire, errs, line, idle,
                   out, inbuf, replies, lastRead>>

\* io.flush() returns Ok: the transmitter is idle.
FlushOk ==
    /\ pc = "flush"
    /\ idle' = TRUE
    /\ pc' = "tx_low"
    /\ UNCHANGED <<cvars, xvars, buf, buf_len, last_receive, address, processed, request,
                   reply, preamble, bytes, until, error, now, nvm, wire, errs, line,
                   out, inbuf, replies, lastRead>>

\* The level of TX-enable, left as it was.
KeptLevel(level) == level

\* io_send.set_low()
set_low(level) == FALSE

\* io_send.set_low(): write_all_bytes returns Ok; after the Reboot reply run
\* waits a millisecond, after any other it ends the iteration.
TxLow ==
    /\ pc = "tx_low"
    /\ line' = set_low(line)
    /\ replies' = Append(replies, reply)
    /\ IF request.command = Command.Reboot
       THEN /\ pc' = "reboot_wait"
            /\ until' = now + 1000
            /\ UNCHANGED <<buf, buf_len>>
       ELSE /\ EndIteration(processed)
            /\ UNCHANGED until
    /\ UNCHANGED <<cvars, xvars, last_receive, address, processed, request, reply, preamble,
                   bytes, error, now, nvm, wire, errs, idle, out, inbuf, lastRead>>

\* wait_until: the deadline lies ahead, yield.
RebootWait ==
    /\ pc = "reboot_wait"
    /\ now < until
    /\ \E d \in TickSteps : Pass(d)
    /\ UNCHANGED <<cvars, xvars, pc, buf, buf_len, last_receive, address, processed, request,
                   reply, preamble, bytes, until, error, nvm, wire, errs, line, idle,
                   out, inbuf, replies, lastRead>>

\* The reset without the wait.
RebootAtOnce ==
    /\ pc = "reboot_wait"
    /\ pc' = "rebooted"
    /\ UNCHANGED <<cvars, xvars, buf, buf_len, last_receive, address, processed, request,
                   reply, preamble, bytes, until, error, now, nvm, wire, errs, line,
                   idle, out, inbuf, replies, lastRead>>

\* system.reboot()
Reboot ==
    /\ pc = "reboot_wait"
    /\ now >= until
    /\ pc' = "rebooted"
    /\ UNCHANGED <<cvars, xvars, buf, buf_len, last_receive, address, processed, request,
                   reply, preamble, bytes, until, error, now, nvm, wire, errs, line,
                   idle, out, inbuf, replies, lastRead>>

\* yield_now().await at the end of the outer loop.
Yield ==
    /\ pc = "yield"
    /\ pc' = "read"
    /\ \E d \in {0} \cup TickSteps : Pass(d)
    /\ UNCHANGED <<cvars, xvars, buf, buf_len, last_receive, address, processed, request,
                   reply, preamble, bytes, until, error, nvm, wire, errs, line, idle,
                   out, inbuf, replies, lastRead>>

Next ==
    \/ ReadWouldBlock
    \/ ReadOk
    \/ ReadRecoverable
    \/ ReadUnrecoverable
    \/ HuntNone
    \/ HuntRequest
    \/ HuntNvmError
    \/ TxHigh
    \/ IoSendError
    \/ WritePreamble
    \/ WriteBody
    \/ WriteWouldBlock
    \/ WriteError
    \/ FlushOk
    \/ TxLow
    \/ RebootWait
    \/ Reboot
    \/ Yield

Spec == Init /\ [][Next]_vars

\* `fill` bytes of what passes on the bus: frames that fail their checksum.
Noise(fill) ==
    LET bad == BadCrc(Frame(Addr.other, Command.Check, <<>>)).bytes
    IN  <<>> \o [k \in 1..fill |-> bad[((k - 1) % Len(bad)) + 1]]

\* A header marker that claims a payload of `words` words, alone or with
\* `fill` bytes behind it, and no frame.
Marker(words, fill) ==
    [kind |-> "cut", bytes |-> HeaderBytes(words, Addr.own, Command.Check) \o Noise(fill)]

\* What the master sends in a run that begins with a marker of a frame that
\* does not fit the read buffer: the marker, or the marker and as many bytes
\* as the buffer takes, and then a request to the slave.
OversizePlans ==
    { <<Marker(62, 0), f>> :
        f \in {g \in WireSegments :
                  /\ g.kind = "frame"
                  /\ g.address = Addr.own
                  /\ g.command \in {Command.Check, Command.ConfigSet, Command.Reboot}
                  /\ Len(g.payload) \in {0, 8}} }
    \cup { <<Marker(255, HeaderSize + FooterSize), Frame(Addr.own, Command.Check, <<>>)>> }

OversizeInit ==
    /\ plan \in OversizePlans
    /\ fn = "slave_next"
    /\ bytewise = FALSE
    /\ fed = 0
    /\ hbuf = <<>>
    /\ hpc = "feed"
    /\ last = NoCall
    /\ msgs = <<>>
    /\ cum = 0
    /\ Boot
    /\ wire = Stream
    /\ StoreIdle

SpecOversize == OversizeInit /\ [][Next]_vars

(***************************************************************************)
(* The store, its handlers and the input task at the level of whole        *)
(* requests (SpecStore, SpecInput)                                         *)
(***************************************************************************)

\* Frames the master sends and readings the converter delivers in one run.
MaxFrames == 3

MaxSamples == 2

\* The bytes of an array of entries, each `size` bytes long.
EntriesBytes(Enc(_), entries, size) ==
    <<>> \o [k \in 1..(Len(entries) * size) |->
                Enc(entries[((k - 1) \div size) + 1])[((k - 1) % size) + 1]]

\* A ConfigSet payload: address, baudrate, reserved.
ConfigPayload(a, baud) == LE16(a) \o LE32(baud) \o <<0, 0>>

\* Calibrations that differ from input to input and in every field.
TunedCalibrations ==
    [n \in 1..Channels |->
        [multiply |-> n + 1, divide |-> -n, add |-> 256 * n - 1,
         min |-> n - 32768, max |-> 32767 - n]]

\* The defaults, but input 0 divides by zero.
ZeroDivideCalibrations ==
    [n \in 1..Channels |->
        IF n = 1 THEN [DefaultCalibration EXCEPT !.divide = 0] ELSE DefaultCalibration]

\* Thresholds that differ from input to input; the debounce time has its
\* top bit set.
TunedThresholds ==
    [n \in 1..Channels |->
        [threshold_high |-> 100 * n, threshold_low |-> -100 * n,
         debounce_time_us |-> <<n, 0, 1, 128>>, debounce_count |-> 1000 + n,
         _padding |-> <<255, 255>>]]

\* The addresses the master talks to: the one of an unconfigured device and
\* the one it configures.
StoreAddresses == {65535, Addr.other}

StoreRequests ==
    { [command |-> Command.ConfigSet, payload |-> ConfigPayload(Addr.other, 115200)] }
    \cup { [command |-> Command.InputSetCalibrations,
            payload |-> EntriesBytes(ProtocolOfCalibration, cals, CalibrationSize)] :
              cals \in {TunedCalibrations, ZeroDivideCalibrations} }
    \cup { [command |-> Command.InputSetThresholds,
            payload |-> EntriesBytes(ProtocolOfThreshold, TunedThresholds, 10)] }
    \cup { [command |-> c, payload |-> <<>>] :
              c \in {Command.ConfigGet, Command.InputGetCalibrations,
                     Command.InputGetThresholds, Command.Reboot} }

StoreFrames ==
    { Frame(a, r.command, r.payload) : a \in StoreAddresses, r \in StoreRequests }

InputFrames ==
    { Frame(BootData.config.address, c, <<>>) :
          c \in {Command.InputGet, Command.InputGetFull} }

\* A frame on the wire of a device whose loop runs with `address`, and what
\* slave_next makes of it.
Arrival(f, a) ==
    [address |-> a, to |-> f.address, command |-> f.command,
     req |-> slave_next(f.bytes, a).req]

StoreArrivals == { Arrival(f, a) : f \in StoreFrames, a \in StoreAddresses }

InputArrivals == { Arrival(f, BootData.config.address) : f \in InputFrames }

\* The flash images a device powers up with: the factory image and an
\* erased page.
StoreImages == { write_to_prefix(DefaultData), [k \in 1..DataSize |-> 255] }

\* The timer ticks between two readings: run waits until 3 us after the
\* second reading of every iteration.
SampleTime == 3

\* Readings of the 12-bit converter.
RawReadings == {0, 1, 700, 4095}

\* Calibrations the input task runs with.
InputCalibrations ==
    { DefaultCalibration,
      [multiply |-> 2, divide |-> 1, add |-> -100, min |-> -1000, max |-> 1000],
      [multiply |-> -3, divide |-> 2, add |-> 0, min |-> -32768, max |-> 32767],
      [multiply |-> 7, divide |-> -2, add |-> 5, min |-> -20000, max |-> 20000],
      [multiply |-> -32768, divide |-> -1, add |-> 32767, min |-> -32768, max |-> 32767],
      [multiply |-> -32768, divide |-> 1, add |-> -32768, min |-> -5, max |-> -5],
      [multiply |-> -1, divide |-> -1, add |-> -1, min |-> -1, max |-> -1],
      [multiply |-> -32768, divide |-> 1, add |-> 0, min |-> -32768, max |-> 32767] }

\* An accumulator that has folded the value v once since its reset.
Once(v) ==
    [previous_value |-> 0, sum |-> v, sum_squares |-> U64(v * v),
     min |-> v, max |-> v, count |-> 1]

\* An accumulator that has folded 65535 times the value v since its reset.
NearWrap(v) ==
    LET q == v * v
        hi0 == q \div 16384
        lo0 == (q % 16384) * 65536
    IN  [previous_value |-> 0, sum |-> 65535 * v,
         sum_squares |-> IF lo0 >= q THEN [hi |-> hi0, lo |-> lo0 - q]
                         ELSE [hi |-> hi0 - 1, lo |-> lo0 + Limb - q],
         min |-> v, max |-> v, count |-> 65535]

\* q * k as a u64, for q <= 2^30 and k < 2^16.
U64Times(q, k) ==
    LET a == (q \div 32768) * k
        b == (q % 32768) * k
        base == [hi |-> a \div 32768, lo |-> (a % 32768) * 32768]
    IN  U64Add(U64Add(base, b \div 2), b - b \div 2)

\* An accumulator that has folded the value v 65536 times, has halved, and
\* has folded v another 32767 times.
Rewrapped(v) ==
    [previous_value |-> 0, sum |-> 65535 * v,
     sum_squares |-> U64Times(v * v, 49151),
     min |-> v, max |-> v, count |-> 65535]

\* The codec run is not part of these specifications.
CodecIdle ==
    /\ plan = <<>>
    /\ fn = "slave_next"
    /\ bytewise = FALSE
    /\ fed = 0
    /\ hbuf = <<>>
    /\ hpc = "feed"
    /\ last = NoCall
    /\ msgs = <<>>
    /\ cum = 0

StoreInit ==
    /\ CodecIdle
    /\ ExecutorIdle
    /\ MasterIdle
    /\ Boot
    /\ wire = <<>>
    /\ \E image \in StoreImages : PowerUp(image)
    /\ inputs = [n \in 1..Channels |-> InputData_new]
    /\ folded = [n \in 1..Channels |-> 0]
    /\ InputStart(started)
    /\ feed = <<>>
    /\ pwm = <<>>

\* A device whose inputs all carry the calibration c and have either folded
\* nothing yet, or one reading, or 65535 readings of the same raw value, or
\* 98303 of them.
InputInit ==
    /\ CodecIdle
    /\ ExecutorIdle
    /\ MasterIdle
    /\ Boot
    /\ wire = <<>>
    /\ InputStart(started)
    /\ feed = <<>>
    /\ pwm = <<>>
    /\ \E c \in InputCalibrations :
          /\ PowerUp(write_to_prefix(
                 [BootData EXCEPT !.calibrations = [n \in 1..Channels |-> c]]))
          /\ \/ /\ inputs = [n \in 1..Channels |-> InputData_new]
                /\ folded = [n \in 1..Channels |-> 0]
             \/ \E u \in RawReadings :
                   /\ inputs = [n \in 1..Channels |-> Once(apply(c, u))]
                   /\ folded = [n \in 1..Channels |-> 1]
             \/ \E u \in RawReadings :
                   /\ inputs = [n \in 1..Channels |-> NearWrap(apply(c, u))]
                   /\ folded = [n \in 1..Channels |-> 65535]
             \/ \E u \in RawReadings :
                   /\ inputs = [n \in 1..Channels |-> Rewrapped(apply(c, u))]
                   /\ folded = [n \in 1..Channels |-> 98303]

\* A panic or an error returned by a task ends the executor and with it
\* every task.
Running == engine = "run" /\ main \notin {"failed"}

\* One iteration of MainLoop::run that finds the frame f in its buffer.
Arrive(f) ==
    /\ Running
    /\ main = "idle"
    /\ frames < MaxFrames
    /\ f.address = run_address
    /\ frames' = frames + 1
    /\ frame' = [some |-> TRUE, address |-> f.to, command |-> f.command]

Req(f) == f.req

\* write_all_bytes of Message::new_response(address, command, payload).
Respond(command, payload) ==
    response' = [some |-> TRUE, seq |-> frames',
                 address |-> ReplyAddress(run_address, cell),
                 command |-> command, payload |-> payload]

\* slave_next returned None: nothing is handled.
Ignore(f) ==
    /\ Arrive(f)
    /\ ~Req(f).some
    /\ UNCHANGED <<flash, cell, run_address, main, held, response, lastSet>>
    /\ UNCHANGED <<cvars, dvars, ivars, tvars, ovars, yvars>>

HandleConfigGet(f) ==
    /\ Arrive(f)
    /\ Req(f).some
    /\ Req(f).command = Command.ConfigGet
    /\ Respond(Command.ConfigGet, ProtocolOfConfig(cell.config))
    /\ UNCHANGED <<flash, cell, run_address, main, held, lastSet>>
    /\ UNCHANGED <<cvars, dvars, ivars, tvars, ovars, yvars>>

HandleInputGetCalibrations(f) ==
    /\ Arrive(f)
    /\ Req(f).some
    /\ Req(f).command = Command.InputGetCalibrations
    /\ Respond(Command.InputGetCalibrations,
               EntriesBytes(ProtocolOfCalibration, cell.calibrations, CalibrationSize))
    /\ UNCHANGED <<flash, cell, run_address, main, held, lastSet>>
    /\ UNCHANGED <<cvars, dvars, ivars, tvars, ovars, yvars>>

HandleInputGetThresholds(f) ==
    /\ Arrive(f)
    /\ Req(f).some
    /\ Req(f).command = Command.InputGetThresholds
    /\ Respond(Command.InputGetThresholds,
               EntriesBytes(ProtocolOfThreshold, cell.thresholds, 10))
    /\ UNCHANGED <<flash, cell, run_address, main, held, lastSet>>
    /\ UNCHANGED <<cvars, dvars, ivars, tvars, ovars, yvars>>

\* A new_data built on the factory data instead of storage.get().
NewDataOnDefaults(req, data) ==
    CASE req.command = Command.ConfigSet ->
             [DefaultData EXCEPT !.config = ConfigOfProtocol(req.payload)]
      [] req.command = Command.InputSetCalibrations ->
             [DefaultData EXCEPT !.calibrations =
                 [n \in 1..Channels |-> CalibrationOfProtocol(req.payload, n)]]
      [] req.command = Command.InputSetThresholds ->
             [DefaultData EXCEPT !.thresholds =
                 [n \in 1..Channels |-> ThresholdOfProtocol(req.payload, n)]]

\* The new_data the three storing handlers build from the request and
\* storage.get().
NewData(req, data) ==
    CASE req.command = Command.ConfigSet ->
             [data EXCEPT !.config = ConfigOfProtocol(req.payload)]
      [] req.command = Command.InputSetCalibrations ->
             [data EXCEPT !.calibrations =
                 [n \in 1..Channels |-> CalibrationOfProtocol(req.payload, n)]]
      [] req.command = Command.InputSetThresholds ->
             [data EXCEPT !.thresholds =
                 [n \in 1..Channels |-> ThresholdOfProtocol(req.payload, n)]]

\* Nvm::set up to its first await: what the cell holds while the flash
\* write is in progress.
set_after_write(old, data) == old

set_first_poll(old, data) == data

\* The `?` behind storage.set(..).await: the handler goes on to Ok(..) only
\* when the write returned Ok.
TryAlways(ok) == TRUE

Try(ok) == ok

\* A storing handler up to the await of the flash write.
StartSet(f, command) ==
    /\ Arrive(f)
    /\ Req(f).some
    /\ Req(f).command = command
    /\ cell' = set_first_poll(cell, NewData(Req(f), cell))
    /\ held' = [some |-> TRUE, command |-> command, payload |-> Req(f).payload,
                data |-> NewData(Req(f), cell), failed |-> FALSE]
    /\ main' = "write"
    /\ UNCHANGED <<flash, run_address, response, lastSet>>
    /\ UNCHANGED <<cvars, dvars, ivars, tvars, ovars, yvars>>

HandleConfigSet(f) == StartSet(f, Command.ConfigSet)

HandleInputSetCalibrations(f) == StartSet(f, Command.InputSetCalibrations)

HandleInputSetThresholds(f) == StartSet(f, Command.InputSetThresholds)

\* The rest of the handler and the reply once the flash write is over.
Finish(ok) ==
    IF Try(ok)
    THEN /\ main' = "idle"
         /\ Respond(held.command, <<>>)
         /\ lastSet' = IF held.command = Command.ConfigSet
                       THEN [some |-> TRUE, address |-> GetLE16(held.payload, 1),
                             baudrate |-> GetU32(held.payload, 3), booted |-> FALSE]
                       ELSE lastSet
    ELSE /\ main' = "failed"
         /\ UNCHANGED <<response, lastSet>>

\* self.1.write(&buf) returns Ok: the page holds the data.
FlashWriteOk ==
    /\ Running
    /\ main = "write"
    /\ flash' = write_to_prefix(held.data)
    /\ held' = None
    /\ UNCHANGED <<cell, run_address, frame, frames>>
    /\ Finish(TRUE)
    /\ UNCHANGED <<cvars, dvars, ivars, tvars, ovars, yvars>>

\* self.1.write(&buf) returns Err(Other(e)).
FlashWriteErr ==
    /\ Running
    /\ main = "write"
    /\ held' = [held EXCEPT !.failed = TRUE]
    /\ UNCHANGED <<flash, cell, run_address, frame, frames>>
    /\ Finish(FALSE)
    /\ UNCHANGED <<cvars, dvars, ivars, tvars, ovars, yvars>>

\* Request::Reboot: the reply is written, then the runtime reboots.
HandleReboot(f) ==
    /\ Arrive(f)
    /\ Req(f).some
    /\ Req(f).command = Command.Reboot
    /\ Respond(Command.Reboot, <<>>)
    /\ main' = "reboot"
    /\ UNCHANGED <<flash, cell, run_address, held, lastSet>>
    /\ UNCHANGED <<cvars, dvars, ivars, tvars, ovars, yvars>>

\* The device starts again: the timer restarts, Nvm::new reads the page, run
\* takes its address from it, InputLoop::new starts the accumulators and the
\* threshold detectors afresh.
Restart ==
    /\ Running
    /\ main = "reboot"
    /\ cell' = try_ref_from_prefix(flash)
    /\ run_address' = try_ref_from_prefix(flash).config.address
    /\ main' = "idle"
    /\ lastSet' = IF lastSet.some THEN [lastSet EXCEPT !.booted = TRUE] ELSE lastSet
    /\ sel' = 0
    /\ half' = 0
    /\ inputs' = [n \in 1..Channels |-> InputData_new]
    /\ folded' = [n \in 1..Channels |-> 0]
    /\ sample' = None
    /\ ticks' = started
    /\ thresholds' = [n \in 1..Channels |-> ThresholdData_new(started)]
    /\ UNCHANGED <<flash, held, response, frame, frames, engine, samples>>
    /\ UNCHANGED <<cvars, dvars, feed, ovars, yvars>>

\* Half an iteration of InputLoop::run: the reading u of input i (or i + 8),
\* taken d timer ticks after the previous one, is calibrated with the
\* calibration in the cell and folded, and the threshold detector of the
\* input is updated with the threshold in the cell; after the second half i
\* moves on in Gray code order. A panic of apply, or of an addition of
\* update in a build that checks for overflow, ends the task.
Sample(u, d) ==
    /\ Running
    /\ samples' = samples + 1
    /\ ticks' = ticks + d
    /\ LET ch == IF half = 0 THEN sel ELSE sel + 8
           c == cell.calibrations[ch + 1]
       IN  IF apply_panics(c) \/ update_overflows(inputs[ch + 1], apply(c, u))
           THEN /\ engine' = "panicked"
                /\ sample' = [some |-> TRUE, channel |-> ch, raw |-> u,
                              calibration |-> c, panicked |-> TRUE, value |-> 0]
                /\ UNCHANGED <<inputs, folded, thresholds>>
           ELSE /\ engine' = "run"
                /\ sample' = [some |-> TRUE, channel |-> ch, raw |-> u,
                              calibration |-> c, panicked |-> FALSE,
                              value |-> apply(c, u)]
                /\ inputs' = [inputs EXCEPT ![ch + 1] = update(@, apply(c, u))]
                /\ folded' = [folded EXCEPT ![ch + 1] = @ + 1]
                /\ thresholds' =
                       [thresholds EXCEPT ![ch + 1] =
                           threshold_update(@, apply(c, u), ticks + d,
                                            cell.thresholds[ch + 1])]
    /\ half' = 1 - half
    /\ sel' = IF half = 1 THEN GRAY_CODE_INCREMENT[sel + 1] ELSE sel
    /\ UNCHANGED <<cvars, dvars, svars, ovars, mvars>>

\* A readout that leaves the accumulators as they are.
ReadWithoutReset == UNCHANGED <<inputs, folded>>

\* The read-and-reset both InputGet and InputGetFull do on every input.
ReadAndReset ==
    /\ inputs' = [n \in 1..Channels |-> ResetTo(Average(inputs[n]))]
    /\ folded' = [n \in 1..Channels |-> 0]

HandleInputGet(f) ==
    /\ Arrive(f)
    /\ Req(f).some
    /\ Req(f).command = Command.InputGet
    /\ Respond(Command.InputGet, [n \in 1..Channels |-> Average(inputs[n])])
    /\ ReadAndReset
    /\ UNCHANGED <<flash, cell, run_address, main, held, lastSet>>
    /\ UNCHANGED <<sel, half, engine, samples, sample>>
    /\ UNCHANGED <<cvars, dvars, tvars, ovars, mvars>>

HandleInputGetFull(f) ==
    /\ Arrive(f)
    /\ Req(f).some
    /\ Req(f).command = Command.InputGetFull
    /\ Respond(Command.InputGetFull, [n \in 1..Channels |-> InputStat(inputs[n])])
    /\ ReadAndReset
    /\ UNCHANGED <<flash, cell, run_address, main, held, lastSet>>
    /\ UNCHANGED <<sel, half, engine, samples, sample>>
    /\ UNCHANGED <<cvars, dvars, tvars, ovars, mvars>>

StoreNext ==
    \/ \E f \in StoreArrivals : Ignore(f)
    \/ \E f \in StoreArrivals : HandleConfigSet(f)
    \/ \E f \in StoreArrivals : HandleConfigGet(f)
    \/ \E f \in StoreArrivals : HandleInputSetCalibrations(f)
    \/ \E f \in StoreArrivals : HandleInputGetCalibrations(f)
    \/ \E f \in StoreArrivals : HandleInputSetThresholds(f)
    \/ \E f \in StoreArrivals : HandleInputGetThresholds(f)
    \/ \E f \in StoreArrivals : HandleReboot(f)
    \/ FlashWriteOk
    \/ FlashWriteErr
    \/ Restart
    \/ samples < MaxSamples /\ Sample(700, SampleTime) /\ UNCHANGED <<feed, evars>>

SpecStore == StoreInit /\ [][StoreNext]_vars

InputNext ==
    \/ samples < MaxSamples /\ \E u \in RawReadings : Sample(u, SampleTime) /\ UNCHANGED <<feed, evars>>
    \/ \E f \in InputArrivals : HandleInputGet(f) /\ UNCHANGED evars
    \/ \E f \in InputArrivals : HandleInputGetFull(f) /\ UNCHANGED evars

SpecInput == InputInit /\ [][InputNext]_vars

(***************************************************************************)
(* The threshold detectors: the input task fed with scripted scans         *)
(***************************************************************************)

\* Threshold-time and threshold-state requests the master sends in one run.
MaxQueries == 1

\* The instants MainLoop::new can read from the timer: the timer runs from
\* the reset on, the clocks, the UART, the ADC and the flash are set up
\* before the main loop is made.
StartTimes == {0, 45}

U32Of(v) == <<v % 256, (v \div 256) % 256, (v \div 65536) % 256, 0>>

\* Threshold configurations: the example of the protocol, no debouncing,
\* threshold_high below threshold_low, and the factory defaults.
ThresholdConfigs ==
    { [threshold_high |-> 100, threshold_low |-> 60, debounce_time_us |-> U32Of(500),
       debounce_count |-> 3, _padding |-> <<255, 255>>],
      [threshold_high |-> 100, threshold_low |-> 60, debounce_time_us |-> U32Of(0),
       debounce_count |-> 0, _padding |-> <<255, 255>>],
      [threshold_high |-> 60, threshold_low |-> 100, debounce_time_us |-> U32Of(0),
       debounce_count |-> 0, _padding |-> <<255, 255>>],
      DefaultThreshold }

\* One scan of the 16 inputs: every input reads `raw`, the first reading of
\* the scan comes `dt` ticks after the last one of the scan before, the
\* others SampleTime ticks after their predecessor. A scan takes 100 or 300
\* ticks.
Scan(raw, dt) == [raw |-> raw, dt |-> dt]

ScanShort == 100 - 15 * SampleTime

ScanLong == 300 - 15 * SampleTime

Scans ==
    { <<Scan(50, ScanShort), Scan(150, ScanShort), Scan(150, ScanShort),
        Scan(150, ScanShort), Scan(150, ScanShort), Scan(150, ScanLong)>>,
      <<Scan(150, ScanShort), Scan(50, ScanShort), Scan(50, ScanShort),
        Scan(50, ScanShort), Scan(50, ScanShort), Scan(50, ScanLong)>>,
      <<Scan(150, ScanShort), Scan(80, ScanShort), Scan(150, ScanShort),
        Scan(50, ScanShort), Scan(80, ScanShort), Scan(150, ScanShort)>>,
      <<Scan(150, ScanLong), Scan(150, ScanLong), Scan(150, ScanLong),
        Scan(150, ScanLong), Scan(50, ScanLong), Scan(50, ScanLong)>>,
      <<Scan(150, ScanShort), Scan(150, ScanShort), Scan(150, ScanShort),
        Scan(150, ScanShort), Scan(150, ScanShort), Scan(150, ScanShort)>>,
      <<Scan(80, ScanShort), Scan(150, ScanShort), Scan(50, ScanLong),
        Scan(80, ScanShort), Scan(80, ScanShort), Scan(150, ScanShort)>> }

\* The scans that follow 65534 scans of the reading 150.
LateScans == { <<Scan(150, ScanShort), Scan(150, ScanShort), Scan(80, ScanShort)>> }

\* The place of input n (from 1) in a scan: i runs 0, 1, 3, 2, 6, 7, 5, 4 and
\* input i is read before input i + 8.
ScanPlace(n) ==
    2 * <<0, 1, 3, 2, 7, 6, 4, 5>>[((n - 1) % 8) + 1] + (n - 1) \div 8

\* The detector of input n after 65534 scans of 100 ticks each that read
\* 150, under a threshold that 150 exceeds and debounces within them.
LongAbove(start, n) ==
    LET first == start + ScanShort + SampleTime * ScanPlace(n)
    IN  [last_above_threshold |-> first, last_below_threshold |-> start,
         above_count |-> 65534, below_count |-> 0,
         last_above_threshold_debounced |-> first,
         last_below_threshold_debounced |-> start]

ThresholdFrames ==
    { Frame(BootData.config.address, c, <<>>) :
          c \in {Command.InputGetThresholdTimes, Command.InputGetThresholdStates} }

ThresholdArrivals == { Arrival(f, BootData.config.address) : f \in ThresholdFrames }

ThresholdInit ==
    /\ CodecIdle
    /\ ExecutorIdle
    /\ MasterIdle
    /\ Boot
    /\ wire = <<>>
    /\ pwm = <<>>
    /\ \E t \in ThresholdConfigs :
          /\ PowerUp(write_to_prefix(
                 [BootData EXCEPT !.thresholds = [n \in 1..Channels |-> t]]))
          /\ \E start \in StartTimes :
                \/ /\ InputStart(start)
                   /\ inputs = [n \in 1..Channels |-> InputData_new]
                   /\ folded = [n \in 1..Channels |-> 0]
                   /\ feed \in Scans
                \/ /\ above_threshold(150, t)
                   /\ ~below_threshold(150, t)
                   /\ t.debounce_count < 65534
                   /\ ticks = start + 65534 * 100
                   /\ thresholds = [n \in 1..Channels |-> LongAbove(start, n)]
                   /\ inputs = [n \in 1..Channels |->
                                   [previous_value |-> 0, sum |-> 65534 * 150,
                                    sum_squares |-> U64Times(150 * 150, 65534),
                                    min |-> 150, max |-> 150, count |-> 65534]]
                   /\ folded = [n \in 1..Channels |-> 65534]
                   /\ feed \in LateScans

\* The next reading of the scripted scans.
ScanSample ==
    /\ feed # <<>>
    /\ Sample(Head(feed).raw,
              IF sel = 0 /\ half = 0 THEN Head(feed).dt ELSE SampleTime)
    /\ feed' = IF half = 1 /\ GRAY_CODE_INCREMENT[sel + 1] = 0 THEN Tail(feed) ELSE feed
    /\ UNCHANGED evars

\* The u16 whose bit n - 1 is set where bits[n] holds.
RECURSIVE Mask(_, _)
Mask(bits, n) ==
    IF n = 0 THEN 0
    ELSE LET rest == Mask(bits, n - 1)
         IN  IF bits[n] THEN rest + 2 ^ (n - 1) ELSE rest

HandleInputGetThresholdTimes(f) ==
    /\ Arrive(f)
    /\ Req(f).some
    /\ Req(f).command = Command.InputGetThresholdTimes
    /\ Respond(Command.InputGetThresholdTimes,
               [now |-> ticks,
                inputs |-> [n \in 1..Channels |-> ThresholdTimes(thresholds[n])]])
    /\ UNCHANGED <<flash, cell, run_address, main, held, lastSet>>
    /\ UNCHANGED <<cvars, dvars, ivars, tvars, ovars, yvars>>

HandleInputGetThresholdStates(f) ==
    /\ Arrive(f)
    /\ Req(f).some
    /\ Req(f).command = Command.InputGetThresholdStates
    /\ Respond(Command.InputGetThresholdStates,
               [above |-> Mask([n \in 1..Channels |-> StateAbove(thresholds[n])], Channels),
                below |-> Mask([n \in 1..Channels |-> StateBelow(thresholds[n])], Channels)])
    /\ UNCHANGED <<flash, cell, run_address, main, held, lastSet>>
    /\ UNCHANGED <<cvars, dvars, ivars, tvars, ovars, yvars>>

\* The master asks between two scans.
ThresholdNext ==
    \/ ScanSample
    \/ (sel = 0 /\ half = 0 /\ frames < MaxQueries)
          /\ \E f \in ThresholdArrivals : HandleInputGetThresholdTimes(f)
    \/ (sel = 0 /\ half = 0 /\ frames < MaxQueries)
          /\ \E f \in ThresholdArrivals : HandleInputGetThresholdStates(f)

SpecThreshold == ThresholdInit /\ [][ThresholdNext]_vars

(***************************************************************************)
(* output.rs: the PWM outputs                                              *)
(***************************************************************************)

\* The slice pairs of the board.
Slices == 8

\* The bytes of an OutputGroup: duty_cycle[0], duty_cycle[1], frequency.
OutputGroupSize == 6

\* u16::clamp.
clamp(v, lo, hi) == IF v < lo THEN lo ELSE IF v > hi THEN hi ELSE v

\* RoundedDiv::rounded_div of two u32: the quotient rounded to the nearest
\* integer, halves upward.
rounded_div(a, b) == (a + b \div 2) \div b

\* The duty cycle handle_group hands to set_duty_cycle for the requested
\* duty d on a channel whose max_duty_cycle() is top: a u32 cast to u16.
duty_of(d, top) == rounded_div(clamp(d, 0, 32768) * 32768, top) % 65536

\* handle_group of the OutputSet handler on the slice p.
handle_group(p, group) ==
    [p EXCEPT !.frequency = clamp(group.frequency, 10, 50000),
              !.duty = <<duty_of(group.duty_cycle[1], p.max_duty[1]),
                         duty_of(group.duty_cycle[2], p.max_duty[2])>>]

\* handle_group of the OutputGet handler.
GroupOfSlice(p) == [duty_cycle |-> p.duty, frequency |-> p.frequency]

GroupOfProtocol(payload, k) ==
    LET at == OutputGroupSize * (k - 1)
    IN  [duty_cycle |-> <<GetLE16(payload, at + 1), GetLE16(payload, at + 3)>>,
         frequency |-> GetLE16(payload, at + 5)]

ProtocolOfGroup(g) ==
    LE16(g.duty_cycle[1]) \o LE16(g.duty_cycle[2]) \o LE16(g.frequency)

\* The max_duty_cycle() of the channels of the boards.
MaxDuties == {1, 1000, 32768, 40000, 48000, 65535}

\* Groups the master asks for: the ends of the duty scale and of the
\* frequency range, values beyond them, and values inside.
OutputGroups ==
    << [duty_cycle |-> <<32768, 0>>, frequency |-> 1000],
       [duty_cycle |-> <<16384, 40000>>, frequency |-> 5],
       [duty_cycle |-> <<1, 32767>>, frequency |-> 60000],
       [duty_cycle |-> <<8192, 24576>>, frequency |-> 50000] >>

\* The OutputSet requests: the groups above, dealt to the 8 slices from a
\* different one on.
OutputRequests ==
    { [k \in 1..Slices |-> OutputGroups[((k + shift) % Len(OutputGroups)) + 1]] :
          shift \in 0..(Len(OutputGroups) - 1) }

OutputFrames ==
    { Frame(BootData.config.address, Command.OutputSet,
            EntriesBytes(ProtocolOfGroup, groups, OutputGroupSize)) :
          groups \in OutputRequests }
    \cup { Frame(BootData.config.address, Command.OutputGet, <<>>) }

OutputArrivals == { Arrival(f, BootData.config.address) : f \in OutputFrames }

\* A slice after the reset: divider 1, both duty cycles 0; get_frequency of
\* the board makes 4578 Hz of the divider.
ResetSlice(top) == [frequency |-> 4578, duty |-> <<0, 0>>, max_duty |-> <<top, top>>]

OutputInit ==
    /\ CodecIdle
    /\ ExecutorIdle
    /\ MasterIdle
    /\ Boot
    /\ wire = <<>>
    /\ PowerUp(write_to_prefix(BootData))
    /\ inputs = [n \in 1..Channels |-> InputData_new]
    /\ folded = [n \in 1..Channels |-> 0]
    /\ InputStart(started)
    /\ feed = <<>>
    /\ \E top \in MaxDuties : pwm = [k \in 1..Slices |-> ResetSlice(top)]

HandleOutputSet(f) ==
    /\ Arrive(f)
    /\ Req(f).some
    /\ Req(f).command = Command.OutputSet
    /\ pwm' = [k \in 1..Slices |->
                  handle_group(pwm[k], GroupOfProtocol(Req(f).payload, k))]
    /\ Respond(Command.OutputSet, <<>>)
    /\ UNCHANGED <<flash, cell, run_address, main, held, lastSet>>
    /\ UNCHANGED <<cvars, dvars, ivars, tvars, yvars>>

HandleOutputGet(f) ==
    /\ Arrive(f)
    /\ Req(f).some
    /\ Req(f).command = Command.OutputGet
    /\ Respond(Command.OutputGet, [k \in 1..Slices |-> GroupOfSlice(pwm[k])])
    /\ UNCHANGED <<flash, cell, run_address, main, held, lastSet>>
    /\ UNCHANGED <<cvars, dvars, ivars, tvars, ovars, yvars>>

OutputNext ==
    \/ \E f \in OutputArrivals : HandleOutputSet(f)
    \/ \E f \in OutputArrivals : HandleOutputGet(f)

SpecOutput == OutputInit /\ [][OutputNext]_vars

(***************************************************************************)
(* main_loop: the dispatcher and the input task under block_on             *)
(***************************************************************************)

\* Most iterations of InputLoop::run in one run.
MaxScan == 9
\* Requests and read failures come during the first iterations only.
MaxBusy == 2
\* Most read-and-reset requests in one run.
MaxReadouts == 2
\* Microseconds from the start of a conversion to its result.
ConversionTime == 2

\* What the converter delivers for the input at mux position `pos` of the
\* left (0) or right (1) half, on a board whose inputs read `raw` and up.
Reading(raw, pos, h) == raw + pos + 8 * h

\* The board of a run: the level of the inputs and how long one poll of the
\* dispatcher takes.
Boards == { <<Scan(raw, dt)>> : raw \in {700}, dt \in {1, 5} }

ExecutorInit ==
    /\ CodecIdle
    /\ Boot
    /\ wire = <<>>
    /\ PowerUp(write_to_prefix(BootData))
    /\ inputs = [n \in 1..Channels |-> InputData_new]
    /\ folded = [n \in 1..Channels |-> 0]
    /\ InputStart(started)
    /\ feed \in Boards
    /\ pwm = <<>>
    /\ ExecutorIdle
    /\ MasterIdle

\* block_on polls select(control, input) for as long as it is pending.
Polled(task) == turn = task /\ returned = "none" /\ Running

\* select polls `control` first and `input` second; block_on polls select
\* again when both were pending.
PolledAfter(task) == IF task = "control" THEN "input" ELSE "control"

\* The task that is polled returns Pending: the next one is polled. A poll
\* of the dispatcher takes the board's time.
Pending ==
    /\ turn' = PolledAfter(turn)
    /\ now' = IF turn = "control" THEN now + Head(feed).dt ELSE now

\* The error is kept and the other task is polled on.
KeepsPolling(err) ==
    /\ returned' = err
    /\ turn' = PolledAfter(turn)

\* select returns the first error a poll produced and block_on returns it;
\* a task that stays pending does not end the run.
Returns(err) ==
    /\ returned' = err
    /\ turn' = "returned"

Event(name) == [e |-> name, at |-> now]

\* The ADC half a failed conversion of half h is started again for.
RestartedFirst(h) == 0

RestartedHalf(h) == h

\* The mux position the select lines are programmed to at the end of an
\* iteration at position i, were they left alone.
SelectStays(i) == i

\* let i_tmp = GRAY_CODE_INCREMENT[i] as usize
SelectTarget(i) == GRAY_CODE_INCREMENT[i + 1]

\* select0 / select1 / select2 (value): line k takes the level of bit k.
WithLine(lines, k, value) ==
    LET bit == (lines \div (2 ^ k)) % 2
    IN  lines - bit * (2 ^ k) + (IF value THEN 2 ^ k ELSE 0)

\* input.start_read0() / start_read1(): the converter starts on the input
\* the select lines point at.
Started(h) == [some |-> TRUE, busy |-> TRUE, half |-> h, pos |-> mux,
               due |-> now + ConversionTime, again |-> FALSE]

\* wait_until returns at once, whatever the instant.
ReachedAtOnce(t, deadline) == TRUE

\* wait_until: if self.now() >= until { break; }
Reached(t, deadline) == t >= deadline

\* nb_await!(input.start_read0()) at the head of the loop.
StartRead0 ==
    /\ Polled("input")
    /\ ipc = "start0"
    /\ samples < 2 * MaxScan
    /\ adc' = Started(0)
    /\ events' = <<Event("start0")>>
    /\ ipc' = "yield"
    /\ UNCHANGED <<turn, returned, mux, stamps, counted>>
    /\ UNCHANGED <<cvars, dvars, svars, ivars, tvars, ovars, mvars>>

\* yield_now().await after the start of ADC0.
InputYield ==
    /\ Polled("input")
    /\ ipc = "yield"
    /\ events' = Append(events, Event("yield"))
    /\ ipc' = "read0"
    /\ turn' = PolledAfter(turn)
    /\ UNCHANGED <<returned, mux, adc, stamps, counted>>
    /\ UNCHANGED <<cvars, dvars, svars, ivars, tvars, ovars, mvars>>

\* wait_read0 / wait_read1: read_last returns WouldBlock, nb_await! yields.
ReadLastWouldBlock ==
    /\ Polled("input")
    /\ ipc \in {"read0", "read1"}
    /\ now < adc.due
    /\ turn' = PolledAfter(turn)
    /\ UNCHANGED <<returned, ipc, mux, adc, stamps, events, counted>>
    /\ UNCHANGED <<cvars, dvars, svars, ivars, tvars, ovars, mvars>>

\* wait_read0 / wait_read1: read_last returns Ok(v); let now0 / now1 =
\* timer.now().
ReadLastOk ==
    /\ Polled("input")
    /\ ipc \in {"read0", "read1"}
    /\ now >= adc.due
    /\ LET v == Reading(Head(feed).raw, adc.pos, adc.half)
       IN  IF ipc = "read0"
           THEN /\ stamps' = [some |-> TRUE, v0 |-> v, now0 |-> now,
                              v1 |-> 0, now1 |-> 0, second |-> FALSE]
                /\ events' = Append(events, Event("read0"))
                /\ ipc' = "start1"
           ELSE /\ stamps' = [stamps EXCEPT !.v1 = v, !.now1 = now, !.second = TRUE]
                /\ events' = Append(events, Event("read1"))
                /\ ipc' = "select0"
    /\ adc' = [adc EXCEPT !.busy = FALSE]
    /\ ticks' = now
    /\ UNCHANGED <<turn, returned, mux, counted>>
    /\ UNCHANGED <<thresholds, feed>>
    /\ UNCHANGED <<cvars, dvars, svars, ivars, ovars, mvars>>

\* wait_read0 / wait_read1: read_last returns Err(RecoverableError): the
\* same half is started again and the loop of wait_read goes on.
ReadLastRecoverable ==
    /\ Polled("input")
    /\ ipc \in {"read0", "read1"}
    /\ now >= adc.due
    /\ samples < 2 * MaxBusy
    /\ errs < MaxReadErrors
    /\ errs' = errs + 1
    /\ adc' = [Started(RestartedHalf(IF ipc = "read0" THEN 0 ELSE 1)) EXCEPT !.again = TRUE]
    /\ UNCHANGED <<turn, returned, ipc, mux, stamps, events, counted>>
    /\ UNCHANGED <<pc, buf, buf_len, last_receive, address, processed, request, reply,
                   preamble, bytes, until, error, now, nvm, wire, line, idle, out,
                   inbuf, replies, lastRead>>
    /\ UNCHANGED <<cvars, svars, ivars, tvars, ovars, mvars>>

\* A call of the Input trait returns an error that `?` hands on, or
\* read_last returns Err(UnrecoverableError(e)): run returns
\* Err(Either::Left(e)), which main_loop maps to MainLoopError::Input.
InputFails ==
    /\ Polled("input")
    /\ ipc \in {"start0", "read0", "start1", "read1", "select0", "select1", "select2"}
    /\ samples < 2 * MaxBusy
    /\ ipc' = "done"
    /\ Returns("Input")
    /\ UNCHANGED <<mux, adc, stamps, events, counted>>
    /\ UNCHANGED <<cvars, dvars, svars, ivars, tvars, ovars, mvars>>

\* nb_await!(input.start_read1()) before the first reading is folded.
StartRead1 ==
    /\ Polled("input")
    /\ ipc = "start1"
    /\ adc' = Started(1)
    /\ events' = Append(events, Event("start1"))
    /\ ipc' = "fold0"
    /\ UNCHANGED <<turn, returned, mux, stamps, counted>>
    /\ UNCHANGED <<cvars, dvars, svars, ivars, tvars, ovars, mvars>>

\* calibration.apply, InputData::update and ThresholdData::update of the
\* reading of this half with its timestamp; after the second half i = i_tmp.
Fold ==
    /\ Polled("input")
    /\ ipc \in {"fold0", "fold1"}
    /\ Sample(IF ipc = "fold0" THEN stamps.v0 ELSE stamps.v1, 0)
    /\ events' = Append(events, Event(ipc))
    /\ ipc' = IF ipc = "fold0" THEN "read1" ELSE "settle"
    /\ UNCHANGED <<turn, returned, mux, adc, stamps, counted>>
    /\ UNCHANGED feed

\* nb_await!(input.select0(i_tmp & 0x1 != 0)), select1 with 0x2, select2
\* with 0x4, one call after the other.
SelectLine ==
    /\ Polled("input")
    /\ ipc \in {"select0", "select1", "select2"}
    /\ LET k == CASE ipc = "select0" -> 0 [] ipc = "select1" -> 1 [] OTHER -> 2
           i_tmp == SelectTarget(sel)
       IN  mux' = WithLine(mux, k, (i_tmp \div (2 ^ k)) % 2 # 0)
    /\ ipc' = CASE ipc = "select0" -> "select1" [] ipc = "select1" -> "select2"
                [] OTHER -> "fold1"
    /\ events' = IF ipc = "select2" THEN Append(events, Event("select")) ELSE events
    /\ UNCHANGED <<turn, returned, adc, stamps, counted>>
    /\ UNCHANGED <<cvars, dvars, svars, ivars, tvars, ovars, mvars>>

\* timer.wait_until(now1 + micros(3)): the instant lies ahead, yield.
SettleWait ==
    /\ Polled("input")
    /\ ipc = "settle"
    /\ ~Reached(now, stamps.now1 + SampleTime)
    /\ turn' = PolledAfter(turn)
    /\ UNCHANGED <<returned, ipc, mux, adc, stamps, events, counted>>
    /\ UNCHANGED <<cvars, dvars, svars, ivars, tvars, ovars, mvars>>

\* timer.wait_until(now1 + micros(3)): the instant is reached, the next
\* iteration begins.
SettleDone ==
    /\ Polled("input")
    /\ ipc = "settle"
    /\ Reached(now, stamps.now1 + SampleTime)
    /\ ipc' = "start0"
    /\ UNCHANGED <<turn, returned, mux, adc, stamps, events, counted>>
    /\ UNCHANGED <<cvars, dvars, svars, ivars, tvars, ovars, mvars>>

\* The counts of the accumulators a readout takes with it.
RECURSIVE Counts(_, _)
Counts(data, n) == IF n = 0 THEN 0 ELSE data[n].count + Counts(data, n - 1)

\* The dispatcher finds an InputGet or InputGetFull request in its buffer
\* and answers it; the inner loop goes on without a yield.
ControlReadout ==
    /\ Polled("control")
    /\ samples < 2 * MaxBusy
    /\ frames < MaxReadouts
    /\ \E f \in InputArrivals : HandleInputGet(f) \/ HandleInputGetFull(f)
    /\ counted' = counted + Counts(inputs, Channels)
    /\ UNCHANGED <<turn, returned, ipc, mux, adc, stamps, events>>

\* io.read returns Err(RecoverableError): continue, without a yield.
ControlRecoverable ==
    /\ Polled("control")
    /\ samples < 2 * MaxBusy
    /\ errs < MaxReadErrors
    /\ errs' = errs + 1
    /\ UNCHANGED <<pc, buf, buf_len, last_receive, address, processed, request, reply,
                   preamble, bytes, until, error, now, nvm, wire, line, idle, out,
                   inbuf, replies, lastRead>>
    /\ UNCHANGED <<cvars, svars, ivars, tvars, ovars, yvars>>

\* The dispatcher yields: io.read, io.write or io.flush returns WouldBlock,
\* or the iteration ends with yield_now().await.
ControlYield ==
    /\ Polled("control")
    /\ Pending
    /\ UNCHANGED <<pc, buf, buf_len, last_receive, address, processed, request, reply,
                   preamble, bytes, until, error, nvm, wire, errs, line, idle, out,
                   inbuf, replies, lastRead>>
    /\ UNCHANGED <<returned, ipc, mux, adc, stamps, events, counted>>
    /\ UNCHANGED <<cvars, svars, ivars, tvars, ovars, mvars>>

\* run returns an error: of io.read, of write_all_bytes, of an output
\* handler or of Nvm::set.
ControlFails ==
    /\ Polled("control")
    /\ samples < 2 * MaxBusy
    /\ \E err \in {"Read", "Write", "IoSend", "Output", "Nvm"} : Returns(err)
    /\ UNCHANGED <<ipc, mux, adc, stamps, events, counted>>
    /\ UNCHANGED <<cvars, dvars, svars, ivars, tvars, ovars, mvars>>

ExecutorNext ==
    \/ StartRead0
    \/ InputYield
    \/ ReadLastWouldBlock
    \/ ReadLastOk
    \/ ReadLastRecoverable
    \/ InputFails
    \/ StartRead1
    \/ Fold
    \/ SelectLine
    \/ SettleWait
    \/ SettleDone
    \/ ControlReadout
    \/ ControlRecoverable
    \/ ControlYield
    \/ ControlFails

SpecExecutor == ExecutorInit /\ [][ExecutorNext]_vars

(***************************************************************************)
(* The master: Protocol::send_request of the tool                          *)
(***************************************************************************)

\* Most send_request calls in one run.
MaxCalls == 3

\* The slaves the master talks to and the commands it sends.
MasterAddresses == {Addr.own, Addr.other}

MasterCommands == {Command.Check, Command.ConfigGet}

\* The response frames of these slaves to these commands, and a ConfigGet
\* response without its payload, which master_next does not decode.
MasterResponses ==
    { Frame(a, c, IF c \in DOMAIN ResponseSize THEN Zeros(ResponseSize[c]) ELSE <<>>) :
        a \in MasterAddresses, c \in MasterCommands }

Undecoded == Frame(Addr.own, Command.ConfigGet, <<>>)

\* What the serial device delivers during the run: one or two different
\* response frames, or the undecodable frame and a response.
MasterStreams ==
    { f.bytes : f \in MasterResponses }
        \cup { p[1].bytes \o p[2].bytes :
                   p \in {q \in MasterResponses \X MasterResponses : q[1] # q[2]} }
        \cup { Undecoded.bytes \o f.bytes : f \in MasterResponses }

\* Protocol::new: an empty buffer; no request is outstanding.
MasterInit ==
    /\ CodecIdle
    /\ Boot
    /\ wire = <<>>
    /\ ExecutorIdle
    /\ flash = <<>>
    /\ cell = None
    /\ run_address = BootNvm.config.address
    /\ main = "idle"
    /\ held = None
    /\ response = None
    /\ frame = None
    /\ frames = 0
    /\ lastSet = None
    /\ sel = 0
    /\ half = 0
    /\ inputs = <<>>
    /\ engine = "run"
    /\ samples = 0
    /\ folded = <<>>
    /\ sample = None
    /\ thresholds = <<>>
    /\ ticks = 0
    /\ feed = <<>>
    /\ pwm = <<>>
    /\ master_buf = <<>>
    /\ master_wire \in MasterStreams
    /\ call = None
    /\ calls = 0
    /\ outcome = None
    /\ examined = <<>>

\* How many bytes one device.read returns: it completes when bytes are there.
MasterReadSizes == {n \in {6, 10, 18, Len(master_wire)} : n >= 1 /\ n <= Len(master_wire)}

\* self.buf_len -= processed; self.buf.copy_within(processed.., 0)
Removed(buffer, count) == SubSeq(buffer, count + 1, Len(buffer))

\* The buffer a return leaves when it skips these two statements.
Kept(buffer, count) == buffer

\* The buffer after `return Err(..)` on a response of another address or
\* another command: the two statements are not reached.
Rejected(buffer, count) == Kept(buffer, count)

\* send_request returns.
ReturnsWith(kind, rest) ==
    /\ outcome' = [some |-> TRUE, kind |-> kind, rest |-> rest]
    /\ call' = None

\* The frame master_next handed to the call in progress.
Examine(res) ==
    examined' = Append(examined, [call |-> calls, address |-> res.address,
                                  command |-> res.command])

\* The firmware is not part of the specification of the tool.
FirmwareIdle == UNCHANGED <<cvars, dvars, svars, ivars, tvars, ovars, evars>>

\* send_request(address, payload, ..): the request is written and flushed.
SendRequest(to, command) ==
    /\ ~call.some
    /\ calls < MaxCalls
    /\ call' = [some |-> TRUE, address |-> to, command |-> command]
    /\ calls' = calls + 1
    /\ outcome' = None
    /\ UNCHANGED <<master_buf, master_wire, examined>>
    /\ FirmwareIdle

\* elapsed >= timeout: Err("Timed out waiting for response").
TimedOut ==
    /\ call.some
    /\ ReturnsWith("timeout", master_buf)
    /\ UNCHANGED <<master_buf, master_wire, calls, examined>>
    /\ FirmwareIdle

\* device.read returns Err: the `?` returns it.
ReadFails ==
    /\ call.some
    /\ ReturnsWith("io", master_buf)
    /\ UNCHANGED <<master_buf, master_wire, calls, examined>>
    /\ FirmwareIdle

\* device.read returns Ok(n) and master_next finds no response in the
\* buffer: the processed bytes are removed and the loop goes on.
ReadNoMessage ==
    /\ call.some
    /\ \E n \in MasterReadSizes :
        LET buffer == master_buf \o SubSeq(master_wire, 1, n)
            r      == master_next(buffer)
        IN  /\ ~r.res.some
            /\ master_buf' = Removed(buffer, r.processed)
            /\ master_wire' = SubSeq(master_wire, n + 1, Len(master_wire))
    /\ UNCHANGED <<call, calls, outcome, examined>>
    /\ FirmwareIdle

\* master_next returns a response of the requested address and command:
\* handle_response, the processed bytes are removed, return.
ReadResponse ==
    /\ call.some
    /\ \E n \in MasterReadSizes :
        LET buffer == master_buf \o SubSeq(master_wire, 1, n)
            r      == master_next(buffer)
        IN  /\ r.res.some
            /\ r.res.address = call.address
            /\ r.res.command = call.command
            /\ master_buf' = Removed(buffer, r.processed)
            /\ master_wire' = SubSeq(master_wire, n + 1, Len(master_wire))
            /\ Examine(r.res)
            /\ ReturnsWith("ok", Removed(buffer, r.processed))
    /\ UNCHANGED calls
    /\ FirmwareIdle

\* response_address != address: return Err.
ReadWrongAddress ==
    /\ call.some
    /\ \E n \in MasterReadSizes :
        LET buffer == master_buf \o SubSeq(master_wire, 1, n)
            r      == master_next(buffer)
        IN  /\ r.res.some
            /\ r.res.address # call.address
            /\ master_buf' = Rejected(buffer, r.processed)
            /\ master_wire' = SubSeq(master_wire, n + 1, Len(master_wire))
            /\ Examine(r.res)
            /\ ReturnsWith("address", Removed(buffer, r.processed))
    /\ UNCHANGED calls
    /\ FirmwareIdle

\* P::get_response(response) is None: return Err.
ReadWrongCommand ==
    /\ call.some
    /\ \E n \in MasterReadSizes :
        LET buffer == master_buf \o SubSeq(master_wire, 1, n)
            r      == master_next(buffer)
        IN  /\ r.res.some
            /\ r.res.address = call.address
            /\ r.res.command # call.command
            /\ master_buf' = Rejected(buffer, r.processed)
            /\ master_wire' = SubSeq(master_wire, n + 1, Len(master_wire))
            /\ Examine(r.res)
            /\ ReturnsWith("command", Removed(buffer, r.processed))
    /\ UNCHANGED calls
    /\ FirmwareIdle

MasterNext ==
    \/ \E a \in MasterAddresses, c \in MasterCommands : SendRequest(a, c)
    \/ TimedOut
    \/ ReadFails
    \/ ReadNoMessage
    \/ ReadResponse
    \/ ReadWrongAddress
    \/ ReadWrongCommand

SpecMaster == MasterInit /\ [][MasterNext]_vars

(***************************************************************************)
(* Properties of the codec (checked under SpecCodec)                       *)
(***************************************************************************)

\* A header marker at 0-based offset p of b: 'O', 'M', a length byte and its
\* bitwise complement.
IsMarker(b, p) ==
    /\ p + 4 <= Len(b)
    /\ b[p + 1] = 79
    /\ b[p + 2] = 77
    /\ b[p + 3] + b[p + 4] = 255

MarkerPositions(b) == {p \in 0..(Len(b) - 4) : IsMarker(b, p)}

FirstMarker(b) == CHOOSE p \in MarkerPositions(b) : \A q \in MarkerPositions(b) : p <= q

\* The frame length 8 + 4L + 2 a marker at p claims.
ClaimedLength(b, p) == 8 + 4 * b[p + 3] + 2

\* The call was made on the whole stream.
OnWholeStream == last.called /\ last.buf = Stream

\* The stream is one well-formed frame, possibly behind junk.
FrameBehindJunk ==
    \/ Len(plan) = 1 /\ plan[1].kind = "frame"
    \/ Len(plan) = 2 /\ plan[1].kind = "junk" /\ plan[2].kind = "frame"

TheFrame == plan[Len(plan)]

JunkLen == Len(Stream) - Len(TheFrame.bytes)

ReturnsTheFrame ==
    /\ last.result.some
    /\ last.result.address = TheFrame.address
    /\ last.result.command = TheFrame.command
    /\ last.result.payload = TheFrame.payload
    /\ last.processed = JunkLen + Len(TheFrame.bytes)

\* C2 as stated: a frame built by new_request / new_response re-parses with
\* next_message to the same address, command and payload, with processed = the
\* frame's length, and behind k junk bytes that contain no header marker the
\* same message is returned with processed = k + frame length.
C2_RoundTripBehindJunk ==
    ( /\ fn = "next_message"
      /\ FrameBehindJunk
      /\ OnWholeStream
      /\ \A p \in MarkerPositions(Stream) : p + 4 > JunkLen )
        => ReturnsTheFrame

\* C2 amended: the same, for junk in which no header marker starts, be it
\* contained in the junk or completed by the first bytes of the frame.
C2_RoundTripNoMarkerStart ==
    ( /\ fn = "next_message"
      /\ FrameBehindJunk
      /\ OnWholeStream
      /\ \A p \in MarkerPositions(Stream) : p >= JunkLen )
        => ReturnsTheFrame

\* C2 witness: a frame with a payload found behind three junk bytes.
C2_Witness ==
    /\ fn = "next_message"
    /\ FrameBehindJunk
    /\ OnWholeStream
    /\ JunkLen = 3
    /\ Len(TheFrame.payload) = 8
    /\ ReturnsTheFrame

\* C3: slave_next returns a request only for a frame whose address is the
\* configured one; a valid frame for another address yields no request while
\* processed covers the whole frame; master_next filters no address and
\* returns the frame's address with the decoded response.
C3_AddressFilter ==
    ( /\ Len(plan) = 1
      /\ TheFrame.kind = "frame"
      /\ OnWholeStream )
        => /\ fn = "slave_next" =>
                /\ last.result.some => TheFrame.address = Addr.own
                /\ TheFrame.address # Addr.own =>
                        ~last.result.some /\ last.processed = Len(TheFrame.bytes)
           /\ ( /\ fn = "master_next"
                /\ TheFrame.command \in 0..14
                /\ TheFrame.command \in DOMAIN ResponseSize =>
                        Len(TheFrame.payload) = ResponseSize[TheFrame.command] )
                => /\ last.result.some
                   /\ last.result.address = TheFrame.address
                   /\ last.result.command = TheFrame.command
                   /\ last.processed = Len(TheFrame.bytes)

\* C3 witness: slave_next has consumed a valid ConfigSet frame for another
\* device without returning a request.
C3_Witness ==
    /\ fn = "slave_next"
    /\ Len(plan) = 1
    /\ TheFrame.kind = "frame"
    /\ OnWholeStream
    /\ TheFrame.address = Addr.other
    /\ TheFrame.command = Command.ConfigSet
    /\ Len(TheFrame.payload) = 8
    /\ ~last.result.some
    /\ last.processed = 18

\* The fixed request payload size of a command: that of its request type,
\* zero for the requests without payload.
FixedRequestSize(c) == IF c \in DOMAIN RequestSize THEN RequestSize[c] ELSE 0

\* The first header marker of the buffer of the latest call is incomplete.
FirstMarkerIncomplete ==
    /\ last.called
    /\ MarkerPositions(last.buf) # {}
    /\ Len(last.buf) - FirstMarker(last.buf) < ClaimedLength(last.buf, FirstMarker(last.buf))

\* C8 as stated: at a header marker with fewer than 8 + 4L + 2 bytes present
\* the hunter returns no message and processed = 0.
C8_IncompleteProcessedZero ==
    FirstMarkerIncomplete => ~last.result.some /\ last.processed = 0

\* C8 amended: at such a marker the hunter returns no message and processed =
\* the number of bytes in front of the marker (0 when the marker starts the
\* buffer), so the caller, until it appends the next bytes, holds the bytes
\* from the marker on.
C8_IncompleteKeepsMarker ==
    FirstMarkerIncomplete =>
        /\ ~last.result.some
        /\ last.processed = FirstMarker(last.buf)
        /\ (last.processed > 0 \/ hpc = "feed") =>
                hbuf = Slice(last.buf, FirstMarker(last.buf), Len(last.buf))

\* C8 witness: an incomplete frame behind one stray byte; the stray byte alone
\* is reported processed.
C8_Witness ==
    /\ FirstMarkerIncomplete
    /\ FirstMarker(last.buf) = 1
    /\ Len(last.buf) = 7
    /\ ~last.result.some
    /\ last.processed = 1

\* The first header marker of the buffer of the latest call has all of its
\* claimed bytes present and a trailing checksum that differs from the
\* CRC-16/KERMIT of its header and payload.
FirstCandidateBad ==
    /\ last.called
    /\ MarkerPositions(last.buf) # {}
    /\ LET p == FirstMarker(last.buf)
           n == ClaimedLength(last.buf, p)
       IN  /\ Len(last.buf) - p >= n
           /\ GetLE16(last.buf, p + n - 1) # CHECKSUM(SubSeq(last.buf, p + 1, p + n - 2))

\* C9: a complete candidate with a wrong checksum is never emitted; the hunter
\* consumes its whole claimed length and resumes directly behind it: what the
\* call returns is what a call on the bytes behind the candidate returns, so a
\* message it emits starts behind the candidate.
C9_BadChecksumSkipsFrame ==
    ( fn = "next_message" /\ FirstCandidateBad ) =>
        LET p    == FirstMarker(last.buf)
            n    == ClaimedLength(last.buf, p)
            rest == next_message(Slice(last.buf, p + n, Len(last.buf)))
        IN  /\ last.processed >= p + n
            /\ last.result = rest.msg
            /\ last.processed = p + n + rest.processed
            /\ last.result.some =>
                    last.processed - (8 + Len(last.result.payload) + 2) >= p + n

\* C9 witness: the candidate with the wrong checksum holds a complete valid
\* frame in its payload and a valid frame follows it; the call skips the
\* first and returns the second.
C9_Witness ==
    /\ fn = "next_message"
    /\ FirstCandidateBad
    /\ Len(plan) = 2
    /\ plan[1] = Nested
    /\ last.buf = Stream
    /\ last.result.some
    /\ last.result.command = plan[2].command
    /\ last.processed = Len(Stream)

\* C10: fed one byte at a time, the hunter called until processed = 0 after
\* each byte, the messages extracted and the cumulative processed count are
\* those of the same bytes given at once.
C10_BytewiseEqualsWhole ==
    ( fn = "next_message" /\ bytewise /\ hpc = "feed" ) =>
        LET whole == DrainAll(SubSeq(Stream, 1, fed), <<>>, 0)
        IN  /\ msgs = whole.msgs
            /\ cum = whole.cum
            /\ hbuf = whole.rest

\* C10 witness: a bytewise run over a damaged frame and a valid one has
\* extracted the valid frame and processed both.
C10_Witness ==
    /\ fn = "next_message"
    /\ bytewise
    /\ hpc = "feed"
    /\ Len(plan) = 2
    /\ plan[1].kind = "badcrc"
    /\ plan[2].kind = "frame"
    /\ fed = Len(Stream)
    /\ Len(msgs) = 1
    /\ cum = Len(Stream)

(***************************************************************************)
(* Properties of the dispatcher (checked under Spec)                       *)
(***************************************************************************)

IsPrefix(a, b) == Len(a) <= Len(b) /\ a = SubSeq(b, 1, Len(a))

\* The complete frames with a right checksum that lie in b, in order.
FramesIn(b) == DrainAll(b, <<>>, 0).msgs

\* Address and command id of the replies sent since the inner loop was entered.
ReplyHeads ==
    [i \in 1..Len(replies) |->
        [address |-> GetLE16(replies[i], 5), command |-> GetLE16(replies[i], 7)]]

\* A frame addressed to the slave as it booted, with a known command.
KnownToSlave(m) == m.address = BootNvm.config.address /\ m.command \in 0..14

\* Such a frame whose payload, if its command has a request payload, has the
\* size of that payload.
DecodesToRequest(m) ==
    /\ KnownToSlave(m)
    /\ m.command \in DOMAIN RequestSize => Len(m.payload) = RequestSize[m.command]

\* The replies owed to the frames of b that pass Test: the frame's command id
\* under the address the slave booted with.
HeadsOwed(b, Test(_)) ==
    LET owed == SelectSeq(FramesIn(b), Test)
    IN  [i \in 1..Len(owed) |->
            [address |-> BootNvm.config.address, command |-> owed[i].command]]

C4_MismatchDroppedUnanswered ==
    ( /\ pc = "yield"
      /\ Len(plan) = 1
      /\ plan[1].kind = "frame"
      /\ plan[1].address = Addr.own
      /\ inbuf = plan[1].bytes
      /\ \/ plan[1].command \notin 0..14
         \/ Len(plan[1].payload) # FixedRequestSize(plan[1].command) )
        => replies = <<>> /\ buf_len = 0

Preamble == <<255, 255>>

InWriteAllBytes == pc \in {"preamble", "body", "flush", "tx_low"}

\* C5: for every reply the transmit side sees TX-enable raised, two 0xFF, the
\* bytes of the framed response once each and in order however the writes are
\* split, the flush completed, TX-enable lowered; bytes go out only while
\* TX-enable is high, and it is lowered only after flush has reported the
\* transmitter idle with the whole sequence written.
C5_TransmitSequence ==
    /\ [](InWriteAllBytes =>
            /\ line
            /\ pc = "preamble" => out = SubSeq(Preamble, 1, 2 - preamble) /\ bytes = reply
            /\ pc = "body" => out \o bytes = Preamble \o reply
            /\ pc \in {"flush", "tx_low"} => out = Preamble \o reply
            /\ pc = "tx_low" => idle)
    /\ [][ /\ out' # out => line'
           /\ (line /\ ~line') => idle /\ out = Preamble \o reply ]_vars

\* C5 witness: the 50-byte InfoGet reply has gone out behind its preamble, the
\* transmitter has been flushed and TX-enable is low again.
C5_Witness ==
    /\ pc = "yield"
    /\ ~line
    /\ idle
    /\ Len(reply) = 50
    /\ out = Preamble \o reply
    /\ replies = <<reply>>
    /\ now > 0

\* C6 as stated: when more than 1000 microseconds have passed since the last
\* received byte and the buffer holds a partial frame, after the read that ends
\* the gap the buffer holds exactly the bytes of that read, and the requests
\* among them are answered.
C6_GapLeavesNewBytes ==
    ( lastRead.kind = "ok" /\ lastRead.gap /\ lastRead.held > 0 ) =>
        /\ inbuf = lastRead.delivered
        /\ pc = "yield" => ReplyHeads = HeadsOwed(lastRead.delivered, DecodesToRequest)

\* C7: after a recoverable read error the buffer is empty and run reads on; the
\* buffer then holds just what the next read delivers, so the requests in it
\* are answered; after an unrecoverable read error run has returned that error
\* and nothing more is sent.
C7_ReadErrors ==
    /\ [](/\ lastRead.kind = "recoverable" =>
                buf_len = 0 /\ pc = "read" /\ error = "none"
          /\ (lastRead.kind = "ok" /\ lastRead.after = "recoverable") =>
                /\ inbuf = lastRead.delivered
                /\ pc = "yield" =>
                        ReplyHeads = HeadsOwed(lastRead.delivered, DecodesToRequest)
          /\ lastRead.kind = "unrecoverable" =>
                pc = "done" /\ error = "Read" /\ buf_len = 0 /\ ~line)
    /\ [][pc = "done" => UNCHANGED <<pc, error, line, out, replies>>]_vars

\* C7 witness: a fragment was in the buffer when read reported a recoverable
\* error; the Check that arrived afterwards has been answered.
C7_Witness ==
    /\ pc = "yield"
    /\ Len(plan) = 2
    /\ plan[1].kind = "cut"
    /\ lastRead.kind = "ok"
    /\ lastRead.after = "recoverable"
    /\ lastRead.delivered = plan[2].bytes
    /\ ReplyHeads = <<[address |-> Addr.own, command |-> Command.Check]>>

(***************************************************************************)
(* Properties of the store and its handlers (checked under SpecStore)      *)
(***************************************************************************)

\* The latest response is a ConfigGet reply written after the device booted
\* on the flash an answered ConfigSet had written.
ConfigGetAfterReboot ==
    /\ lastSet.some
    /\ lastSet.booted
    /\ response.some
    /\ response.command = Command.ConfigGet

\* C11: once a ConfigSet with address A and baudrate B has been answered and
\* the device has rebooted on the flash it wrote, the device answers at A
\* and its ConfigGet reply carries both A and B.
C11_ConfigSurvivesReboot ==
    ConfigGetAfterReboot =>
        /\ response.address = lastSet.address
        /\ response.payload.address = lastSet.address
        /\ "baudrate" \in DOMAIN response.payload
        /\ response.payload.baudrate = lastSet.baudrate

\* C12: a ConfigSet that stores a new address leaves the address of the
\* running loop alone: the address changes only when the device restarts,
\* every reply (the ConfigSet reply included) carries the address the loop
\* started with, a frame to any other address (the new one included) changes
\* nothing, and after the restart the loop runs with the stored address.
C12_AddressFixedUntilReboot ==
    /\ [][run_address' # run_address => main = "reboot" /\ main' = "idle"]_vars
    /\ [][response' # response => response'.address = run_address]_vars
    /\ [][(frames' = frames + 1 /\ frame'.address # run_address)
              => UNCHANGED <<flash, cell, main, held, response>>]_vars
    /\ []((lastSet.some /\ lastSet.booted) => run_address = lastSet.address)

\* A ConfigSet with a new address has been answered under the old address,
\* the cell holds the new one, and a frame sent to the new address
\* afterwards got no reply.
C12_Witness ==
    /\ lastSet.some
    /\ ~lastSet.booted
    /\ lastSet.address # run_address
    /\ cell.config.address = lastSet.address
    /\ response.command = Command.ConfigSet
    /\ response.address = run_address
    /\ frame.address = lastSet.address
    /\ response.seq < frames

\* C13: when Nvm::set has succeeded the cell holds exactly the data set and
\* the flash bytes decode to it, and the store a restart builds from the
\* flash holds the same data as the store before the restart.
C13_StoreRoundTrip ==
    /\ [][(main = "write" /\ main' = "idle")
              => cell' = held.data /\ try_ref_from_prefix(flash') = held.data]_vars
    /\ [][(main = "reboot" /\ main' = "idle") => cell' = cell]_vars

\* The device restarted on a page with the input-dependent calibrations.
C13_Witness ==
    /\ response.some
    /\ response.command = Command.Reboot
    /\ response.seq = frames
    /\ main = "idle"
    /\ cell.calibrations = TunedCalibrations

\* C14: a page whose bytes are all 0xFF decodes to address 0xFFFF, every
\* calibration (1, 1, 0, -32768, 32767) and every threshold
\* (32767, -32768, 0, 0).
C14_ErasedPageDecodesToDefaults ==
    (PageOf(flash) = ErasedPage /\ main = "idle") =>
        /\ cell.config.address = 65535
        /\ \A n \in 1..Channels :
              /\ cell.calibrations[n] = DefaultCalibration
              /\ cell.thresholds[n].threshold_high = 32767
              /\ cell.thresholds[n].threshold_low = -32768
              /\ cell.thresholds[n].debounce_time_us = U32(0)
              /\ cell.thresholds[n].debounce_count = 0

\* C15: from the first poll of Nvm::set on, while the flash write is still
\* in progress, the cell holds the new data, and a reading the input task
\* takes in that time is calibrated with the new calibration.
C15_CacheBeforeFlash ==
    /\ [](main = "write" => cell = held.data)
    /\ [][(main = "write" /\ samples' = samples + 1)
              => sample'.calibration = held.data.calibrations[sample'.channel + 1]]_vars

\* The first request is an InputSetCalibrations whose flash write is still
\* in progress, and the input task has already read the new calibration.
C15_Witness ==
    /\ main = "write"
    /\ frames = 1
    /\ held.command = Command.InputSetCalibrations
    /\ try_ref_from_prefix(flash) # held.data
    /\ sample.some
    /\ sample.calibration = TunedCalibrations[sample.channel + 1]

\* C16: when the flash write of a storing handler fails, no reply is
\* written and the run ends with the error; nothing happens afterwards.
C16_FailedWriteEndsRun ==
    /\ [][(held'.some /\ held'.failed /\ ~(held.some /\ held.failed))
              => main' = "failed" /\ response' = response]_vars
    /\ [][main = "failed" => UNCHANGED <<main, response, frames, flash, cell>>]_vars

\* The flash write of an InputSetThresholds failed.
C16_Witness ==
    /\ main = "failed"
    /\ held.some
    /\ held.failed
    /\ held.command = Command.InputSetThresholds

\* C18: no calibration in the cell ever has divide = 0 or min > max, so
\* Calibration::apply never panics in the input task.
C18_CachedCalibrationsApply ==
    /\ \A n \in 1..Channels : ~apply_panics(cell.calibrations[n])
    /\ engine # "panicked"

(***************************************************************************)
(* Properties of the calibration and the accumulators (checked under       *)
(* SpecInput)                                                              *)
(***************************************************************************)

InI32(v) == -2147483647 - 1 <= v /\ v <= 2147483647

\* The quotient p / d rounded toward zero, told by what it is: of the floor
\* and its successor the one whose product with d lies between 0 and p,
\* less than |d| away from p.
TowardZero(p, d) ==
    CHOOSE q \in {p \div d, (p \div d) + 1} :
        /\ IF p >= 0 THEN 0 <= q * d /\ q * d <= p ELSE p <= q * d /\ q * d <= 0
        /\ IF d > 0 THEN p - q * d < d /\ q * d - p < d
                    ELSE p - q * d < -d /\ q * d - p < -d

\* The latest reading was calibrated with a calibration the claim covers.
Calibrated ==
    /\ sample.some
    /\ ~sample.panicked
    /\ sample.raw \in 0..4095
    /\ sample.calibration.divide # 0
    /\ sample.calibration.min <= sample.calibration.max

\* C17: for a raw reading u in 0..4095 and a calibration (m, d, a, lo, hi)
\* with d # 0 and lo <= hi the calibrated value is
\* clamp(trunc(u * m / d) + a, lo, hi), the division rounding toward zero
\* also for negative products; no intermediate leaves 32 bits, the value
\* lies in [lo, hi], and (2, 1, -100, -1000, 1000) turns 700 into 1000.
C17_CalibratedValue ==
    Calibrated =>
        LET c == sample.calibration
            p == sample.raw * c.multiply
            q == TowardZero(p, c.divide)
            s == q + c.add
        IN  /\ InI32(p) /\ InI32(q) /\ InI32(s)
            /\ sample.value = IF s < c.min THEN c.min
                              ELSE IF s > c.max THEN c.max ELSE s
            /\ c.min <= sample.value /\ sample.value <= c.max
            /\ (c = [multiply |-> 2, divide |-> 1, add |-> -100,
                     min |-> -1000, max |-> 1000] /\ sample.raw = 700)
                   => sample.value = 1000

\* A negative product that the divisor does not divide has been calibrated.
C17_Witness ==
    /\ Calibrated
    /\ sample.raw * sample.calibration.multiply < 0
    /\ sample.calibration.divide = 2
    /\ sample.raw = 1
    /\ sample.value = -1

\* A step that handles InputGet or InputGetFull.
ReadStep(command) ==
    /\ frames' = frames + 1
    /\ response'.some
    /\ response'.seq = frames'
    /\ response'.command = command

\* What a read-and-reset of the accumulator d computes.
Computed(d, n) ==
    IF folded[n] > 0 THEN TowardZero(d.sum, d.count) ELSE d.previous_value

\* C19: count is 0 exactly when no value was folded since the last
\* read-and-reset; a read-and-reset computes sum / count rounded toward
\* zero when values were folded and the value of the previous read-and-reset
\* otherwise (0 before the first); InputGet returns that value, so two
\* InputGet in a row without a reading between them return the same.
C19_ReadAndResetAverage ==
    /\ [](\A n \in 1..Channels : (inputs[n].count = 0) <=> (folded[n] = 0))
    /\ [](frames = 0 => \A n \in 1..Channels : inputs[n].previous_value = 0)
    /\ [][ReadStep(Command.InputGet) =>
             \A n \in 1..Channels : response'.payload[n] = Computed(inputs[n], n)]_vars
    /\ [][(ReadStep(Command.InputGet) \/ ReadStep(Command.InputGetFull)) =>
             \A n \in 1..Channels :
                 inputs'[n].previous_value = Computed(inputs[n], n)]_vars
    /\ [][samples' = samples + 1 =>
             \A n \in 1..Channels :
                 inputs'[n].previous_value = inputs[n].previous_value]_vars
    /\ [][(ReadStep(Command.InputGet) /\ response.some
              /\ response.command = Command.InputGet
              /\ \A n \in 1..Channels : folded[n] = 0)
             => response'.payload = response.payload]_vars

\* Two requests and no reading since power-up, the second an InputGet that
\* returns a value other than 0: the value the first read-and-reset computed.
C19_Witness ==
    /\ frames = 2
    /\ samples = 0
    /\ response.some
    /\ response.command = Command.InputGet
    /\ response.payload[1] # 0
    /\ inputs[1].previous_value = response.payload[1]

\* C20: after any read-and-reset of a channel its accumulator satisfies
\* min <= previous_value <= max.
C20_PreviousWithinMinMax ==
    (response.some /\ response.command \in {Command.InputGet, Command.InputGetFull}
         /\ \A n \in 1..Channels : folded[n] = 0)
        => \A n \in 1..Channels :
               /\ inputs[n].min <= inputs[n].previous_value
               /\ inputs[n].previous_value <= inputs[n].max

\* C20 as it holds: a read-and-reset of a channel that has folded values
\* since the previous one stores a previous_value that lies between the min
\* and the max the accumulator held when it was read; the reset itself
\* leaves min = 32767 and max = -32768.
C20_AverageWithinMinMax ==
    [][(ReadStep(Command.InputGet) \/ ReadStep(Command.InputGetFull)) =>
          \A n \in 1..Channels :
              /\ folded[n] > 0 =>
                    /\ inputs[n].min <= inputs'[n].previous_value
                    /\ inputs'[n].previous_value <= inputs[n].max
              /\ inputs'[n].min = 32767
              /\ inputs'[n].max = -32768]_vars

\* An InputGetFull has just read an input that had folded two different
\* values: its reply carries their min and max, the accumulator the average
\* between them.
C20_Witness ==
    /\ response.some
    /\ response.command = Command.InputGetFull
    /\ response.seq = frames
    /\ folded[1] = 0
    /\ response.payload[1].count = 2
    /\ response.payload[1].min < inputs[1].previous_value
    /\ inputs[1].previous_value < response.payload[1].max
    /\ inputs[1].min = 32767

\* A step of the input task that folds a reading into an accumulator.
FoldStep ==
    /\ samples' = samples + 1
    /\ sample'.some
    /\ ~sample'.panicked

\* The sum of squares s is floor(t / 4) or the integer after it.
Quartered(s, t) == s \in {U64Div4(t), U64Add(U64Div4(t), 1)}

C22_RescaleKeepsMeanAndVariance ==
    [][(FoldStep /\ inputs[sample'.channel + 1].count = 65535) =>
          LET n == sample'.channel + 1
              v == sample'.value
              S == inputs[n].sum + v
              T == U64Add(inputs[n].sum_squares, v * v)
              D == S - inputs'[n].sum - inputs'[n].sum
          IN  /\ D = 0 \/ S >= 65536 \/ S <= -65536
              /\ (S % 65536 = 0 /\ inputs'[n].sum % 32768 = 0 /\ T.hi = 0
                      /\ S \in (-65536 * 127)..(65536 * 127))
                    => LET m == S \div 65536
                           P == T.lo - m * S
                           Q == inputs'[n].sum_squares.lo
                                    - (inputs'[n].sum \div 32768) * inputs'[n].sum
                           E == IF 2 * Q - P < 0 THEN P - 2 * Q ELSE 2 * Q - P
                       IN  E <= P \div 8192]_vars

\* What a reading does to the two counters of its input, as C23 has it.
CountersFollow(n, v, t) ==
    LET up(c) == IF c = 65535 THEN 65535 ELSE c + 1
    IN  /\ v > t.threshold_high =>
              /\ thresholds'[n].above_count = up(thresholds[n].above_count)
              /\ thresholds'[n].below_count = 0
        /\ v < t.threshold_low =>
              /\ thresholds'[n].below_count = up(thresholds[n].below_count)
              /\ thresholds'[n].above_count = 0
        /\ (t.threshold_low <= v /\ v <= t.threshold_high) =>
              /\ thresholds'[n].above_count = 0
              /\ thresholds'[n].below_count = 0

\* The counters of the input read last tell where its reading lies.
CountersTell ==
    (sample.some /\ ~sample.panicked) =>
        LET n == sample.channel + 1
            t == cell.thresholds[n]
        IN  /\ thresholds[n].above_count > 0 => sample.value > t.threshold_high
            /\ thresholds[n].below_count > 0 => sample.value < t.threshold_low
            /\ ~(thresholds[n].above_count > 0 /\ thresholds[n].below_count > 0)

\* C23: after every sample, for any threshold configuration: a sample above
\* threshold_high increments above_count (saturating at 65535) and leaves
\* below_count = 0; a sample below threshold_low increments below_count and
\* leaves above_count = 0; a sample within [threshold_low, threshold_high]
\* leaves both 0. Hence above_count > 0 implies the last sample was above
\* threshold_high, below_count > 0 that it was below threshold_low, and the
\* two counters are never both non-zero.
C23_CountersAnyConfiguration ==
    /\ [][FoldStep => CountersFollow(sample'.channel + 1, sample'.value,
                                     cell.thresholds[sample'.channel + 1])]_vars
    /\ [](CountersTell)
    /\ [](\A n \in 1..Channels :
             ~(thresholds[n].above_count > 0 /\ thresholds[n].below_count > 0))

\* C23 as it holds: the same for every threshold configuration with
\* threshold_low <= threshold_high.
C23_CountersOrderedThresholds ==
    /\ [][(FoldStep /\ cell.thresholds[sample'.channel + 1].threshold_low
                           <= cell.thresholds[sample'.channel + 1].threshold_high)
             => CountersFollow(sample'.channel + 1, sample'.value,
                               cell.thresholds[sample'.channel + 1])]_vars
    /\ []((\A n \in 1..Channels :
              cell.thresholds[n].threshold_low <= cell.thresholds[n].threshold_high)
             => /\ CountersTell
                /\ \A n \in 1..Channels :
                      ~(thresholds[n].above_count > 0 /\ thresholds[n].below_count > 0))

\* Input 0 has read more than 65535 values above threshold_high in a row:
\* its counter stays at 65535.
C23_Witness ==
    /\ sample.some
    /\ sample.value > cell.thresholds[1].threshold_high
    /\ cell.thresholds[1].threshold_low <= cell.thresholds[1].threshold_high
    /\ folded[1] = 65536
    /\ thresholds[1].above_count = 65535
    /\ thresholds[1].below_count = 0

\* The debounce time of a threshold in timer ticks (microseconds).
DebounceTicks(t) ==
    t.debounce_time_us[1] + 256 * t.debounce_time_us[2]
        + 65536 * t.debounce_time_us[3] + 65536 * 256 * t.debounce_time_us[4]

\* C24: on a sample v > threshold_high at time t the debounced timestamp
\* last_above_threshold_debounced is set to last_above_threshold, the time of
\* the first sample of the current run above the threshold, exactly when the
\* number of consecutive above-threshold samples immediately before this one
\* is at least debounce_count and t - last_above_threshold is at least
\* debounce_time_us; otherwise it is left unchanged; the same for samples
\* below threshold_low. (With threshold_high = 100, debounce_count = 3,
\* debounce_time_us = 500 and the readings 50, 150, 150, 150, 150 one scan
\* apart and a sixth 150 three scans later, the debounced timestamp becomes
\* the time of the first 150 at the sixth reading.)
C24_DebounceRule ==
    [][FoldStep =>
          LET n == sample'.channel + 1
              v == sample'.value
              t == cell.thresholds[n]
              old == thresholds[n]
              new == thresholds'[n]
          IN  /\ DebounceTicks(t) < 65536 * 256
              /\ IF v > t.threshold_high
                 THEN /\ new.last_above_threshold =
                            IF old.above_count = 0 THEN ticks'
                            ELSE old.last_above_threshold
                      /\ new.last_above_threshold_debounced =
                            IF /\ old.above_count >= t.debounce_count
                               /\ ticks' - new.last_above_threshold >= DebounceTicks(t)
                            THEN new.last_above_threshold
                            ELSE old.last_above_threshold_debounced
                 ELSE /\ new.last_above_threshold = old.last_above_threshold
                      /\ new.last_above_threshold_debounced
                            = old.last_above_threshold_debounced
              /\ IF v < t.threshold_low
                 THEN /\ new.last_below_threshold =
                            IF old.below_count = 0 THEN ticks'
                            ELSE old.last_below_threshold
                      /\ new.last_below_threshold_debounced =
                            IF /\ old.below_count >= t.debounce_count
                               /\ ticks' - new.last_below_threshold >= DebounceTicks(t)
                            THEN new.last_below_threshold
                            ELSE old.last_below_threshold_debounced
                 ELSE /\ new.last_below_threshold = old.last_below_threshold
                      /\ new.last_below_threshold_debounced
                            = old.last_below_threshold_debounced]_vars

\* The example: input 0 has read 50 and then five times 150, the last one
\* 600 ticks after the first; the crossing time is that of the first 150 and
\* the debounced one has just become it.
C24_Witness ==
    /\ sample.some
    /\ sample.channel = 0
    /\ cell.thresholds[1].threshold_high = 100
    /\ cell.thresholds[1].debounce_count = 3
    /\ DebounceTicks(cell.thresholds[1]) = 500
    /\ folded[1] = 6
    /\ inputs[1].min = 50
    /\ inputs[1].sum = 50 + 5 * 150
    /\ thresholds[1].above_count = 5
    /\ ticks = thresholds[1].last_above_threshold + 600
    /\ thresholds[1].last_above_threshold_debounced = thresholds[1].last_above_threshold
    /\ thresholds[1].last_below_threshold_debounced < thresholds[1].last_above_threshold

\* C25: with sample timestamps that do not decrease, the debounced crossing
\* timestamps of every input never decrease, and whenever one changes its
\* new value is the timestamp of the first sample of the current run on that
\* side: the raw crossing time, never later than the current sample time.
C25_DebouncedMonotonic ==
    /\ [][ticks' >= ticks]_vars
    /\ [][\A n \in 1..Channels :
             LET old == thresholds[n]
                 new == thresholds'[n]
             IN  /\ new.last_above_threshold_debounced >= old.last_above_threshold_debounced
                 /\ new.last_below_threshold_debounced >= old.last_below_threshold_debounced
                 /\ new.last_above_threshold_debounced # old.last_above_threshold_debounced
                       => /\ FoldStep /\ n = sample'.channel + 1
                          /\ new.last_above_threshold_debounced = new.last_above_threshold
                          /\ new.last_above_threshold =
                                IF old.above_count = 0 THEN ticks'
                                ELSE old.last_above_threshold
                          /\ new.last_above_threshold_debounced <= ticks'
                 /\ new.last_below_threshold_debounced # old.last_below_threshold_debounced
                       => /\ FoldStep /\ n = sample'.channel + 1
                          /\ new.last_below_threshold_debounced = new.last_below_threshold
                          /\ new.last_below_threshold =
                                IF old.below_count = 0 THEN ticks'
                                ELSE old.last_below_threshold
                          /\ new.last_below_threshold_debounced <= ticks']_vars

\* Input 0 has debounced a crossing that began three scans of 300 ticks
\* before its latest reading, which is still above the threshold.
C25_Witness ==
    /\ sample.some
    /\ sample.channel = 0
    /\ thresholds[1].above_count = 4
    /\ DebounceTicks(cell.thresholds[1]) = 500
    /\ thresholds[1].last_above_threshold_debounced = thresholds[1].last_above_threshold
    /\ thresholds[1].last_above_threshold_debounced = ticks - 900
    /\ thresholds[1].last_below_threshold_debounced < thresholds[1].last_above_threshold

\* Bit n - 1 of a u16.
Bit(mask, n) == (mask \div 2 ^ (n - 1)) % 2 = 1

\* Exactly one of the two state bits of the detector t is set.
OneSided(t) == StateAbove(t) # StateBelow(t)

\* A debounced crossing of input n is recorded in this step.
Recorded(n) ==
    \/ thresholds'[n].last_above_threshold_debounced
          # thresholds[n].last_above_threshold_debounced
    \/ thresholds'[n].last_below_threshold_debounced
          # thresholds[n].last_below_threshold_debounced

\* The reply to InputGetThresholdStates carries, for every input, the above
\* bit where the debounced high crossing is not older than the low one and
\* the below bit where the low one is not older than the high one: both
\* exactly when the two timestamps are equal.
StatesReply ==
    ReadStep(Command.InputGetThresholdStates) =>
        \A n \in 1..Channels :
            LET hi == thresholds[n].last_above_threshold_debounced
                lo == thresholds[n].last_below_threshold_debounced
            IN  /\ Bit(response'.payload.above, n) <=> hi >= lo
                /\ Bit(response'.payload.below, n) <=> lo >= hi
                /\ (Bit(response'.payload.above, n) /\ Bit(response'.payload.below, n))
                      <=> hi = lo

\* From the first debounced crossing of an input on exactly one of its two
\* bits is set; before, its timestamps are the start time of the loop.
OneSidedOnceRecorded ==
    \A n \in 1..Channels :
        /\ Recorded(n) => OneSided(thresholds'[n])
        /\ OneSided(thresholds[n]) => OneSided(thresholds'[n])
        /\ ~OneSided(thresholds'[n]) =>
              /\ thresholds'[n].last_above_threshold_debounced
                    = thresholds[n].last_above_threshold_debounced
              /\ thresholds'[n].last_below_threshold_debounced
                    = thresholds[n].last_below_threshold_debounced

\* C26: in the threshold-state reply an input has both its above and its
\* below bit set if and only if its two debounced timestamps are equal, and
\* that happens only in the initial state, before any debounced crossing has
\* been recorded since the start; once a debounced crossing has been
\* recorded for an input, exactly one of its bits is set.
C26_BothBitsOnlyInitially ==
    /\ [][StatesReply]_vars
    /\ [][OneSidedOnceRecorded]_vars

\* C26 as it holds: the same for inputs whose threshold_low does not exceed
\* their threshold_high.
C26_BothBitsOnlyInitiallyOrdered ==
    /\ [][StatesReply]_vars
    /\ [][(\A n \in 1..Channels :
              cell.thresholds[n].threshold_low <= cell.thresholds[n].threshold_high)
             => OneSidedOnceRecorded]_vars

\* A reply whose bits say that input 0 is above and input 15 is not yet:
\* the scan is between the debounce of the two.
C26_Witness ==
    /\ response.some
    /\ response.command = Command.InputGetThresholdStates
    /\ response.seq = frames
    /\ cell.thresholds[1].threshold_low <= cell.thresholds[1].threshold_high
    /\ Bit(response.payload.above, 1)
    /\ ~Bit(response.payload.below, 1)
    /\ thresholds[1].last_above_threshold_debounced
          > thresholds[1].last_below_threshold_debounced
    /\ thresholds[1].above_count > 0

\* C27: in the threshold-times reply last_high (last_low) of an input is 0 as
\* long as no high (low) crossing has been recorded for it since boot; here
\* for the inputs that have not been read at all since boot.
C27_NoCrossingReadsZero ==
    [][ReadStep(Command.InputGetThresholdTimes) =>
          \A n \in 1..Channels :
              folded[n] = 0 =>
                  /\ response'.payload.inputs[n].last_high = 0
                  /\ response'.payload.inputs[n].last_low = 0]_vars

\* The hardware duty of the requested duty d on a channel whose maximum is
\* top: round(d * top / 0x8000), d clamped to 0..0x8000.
ScaledDuty(d, top) == (clamp(d, 0, 32768) * top + 16384) \div 32768

\* C28: OutputSet programs, for each of the 8 slice pairs, the frequency
\* clamped to [10, 50000] Hz and, for each of its two channels, the hardware
\* duty round(d * max_duty / 0x8000) with d clamped to 0..0x8000: the
\* programmed duty never exceeds max_duty, d = 0x8000 gives max_duty and
\* d = 0 gives 0.
C28_OutputSetScalesDuty ==
    [][\A f \in OutputArrivals :
          HandleOutputSet(f) =>
              \A k \in 1..Slices :
                  LET group == GroupOfProtocol(Req(f).payload, k)
                  IN  /\ pwm'[k].frequency = clamp(group.frequency, 10, 50000)
                      /\ \A c \in 1..2 :
                            /\ pwm'[k].duty[c]
                                  = ScaledDuty(group.duty_cycle[c], pwm[k].max_duty[c])
                            /\ pwm'[k].duty[c] <= pwm[k].max_duty[c]
                            /\ group.duty_cycle[c] = 32768
                                  => pwm'[k].duty[c] = pwm[k].max_duty[c]
                            /\ group.duty_cycle[c] = 0 => pwm'[k].duty[c] = 0]_vars

\* The Reboot reply is out: TX-enable is low again, the transmitter idle,
\* and what was written while it was high is the preamble and the frame.
RebootReplyOut ==
    /\ request.some
    /\ request.command = Command.Reboot
    /\ reply = new_response(address, Command.Reboot, <<>>)
    /\ out = <<255, 255>> \o reply
    /\ replies # <<>>
    /\ replies[Len(replies)] = reply
    /\ idle
    /\ ~line

\* C29: on Reboot the slave first emits the complete reply frame (through
\* flush and TX-enable lowered), then waits at least 1 ms of timer time, and
\* only then triggers the hardware reset; no other request is handled
\* between the reply and the reset.
C29_RebootAfterReplyAndWait ==
    /\ [](pc \in {"reboot_wait", "rebooted"} => RebootReplyOut)
    /\ [][(pc # "reboot_wait" /\ pc' = "reboot_wait") =>
             /\ pc = "tx_low"
             /\ until' >= now + 1000]_vars
    /\ [][pc = "reboot_wait" =>
             /\ pc' \in {"reboot_wait", "rebooted"}
             /\ UNCHANGED <<until, request, reply, replies, out, buf, buf_len, wire>>]_vars
    /\ [][(pc # "rebooted" /\ pc' = "rebooted") =>
             /\ pc = "reboot_wait"
             /\ now >= until]_vars
    /\ [](pc = "rebooted" => now >= until)

\* The reset has been triggered exactly 1 ms after the reply was out.
C29_Witness ==
    /\ pc = "rebooted"
    /\ RebootReplyOut
    /\ now = until
    /\ now >= 1000

\* An iteration of the outer loop of MainLoop::run ends in this step: with
\* the yield_now() at its end, or with the `continue` after a recoverable
\* read error.
IterationEnds ==
    \/ pc = "yield" /\ pc' = "read"
    \/ pc = "read" /\ pc' = "read" /\ errs' = errs + 1

\* C30: neither task can starve the other: between any two consecutive
\* iterations of an unbounded loop of the dispatcher (or of the input
\* engine) the task yields at least once, also where the iteration ends
\* with a recoverable read error: every iteration of the dispatcher loop
\* ends with the yield.
C30_YieldEveryIteration ==
    [][IterationEnds => pc = "yield"]_vars

(***************************************************************************)
(* Properties of the executor and the input task (checked under            *)
(* SpecExecutor)                                                           *)
(***************************************************************************)

\* The errors MainLoop::run can return.
ControlErrors == {"Read", "Write", "IoSend", "Output", "Nvm"}

\* C31: the executor polls the dispatcher and the input task in turn until
\* the first of them returns an error; it returns that error (an error of
\* the input task as MainLoopError::Input with the input task ended, an error
\* of the dispatcher as the dispatcher's), it has returned only with an
\* error, and once it has returned nothing is polled: no variable of either
\* task changes again.
C31_ReturnsFirstError ==
    [][ /\ (turn = "returned" => UNCHANGED vars)
        /\ (turn' = "returned" <=> returned' # "none")
        /\ (returned' # returned =>
               /\ returned = "none"
               /\ turn' = "returned"
               /\ \/ turn = "input" /\ returned' = "Input" /\ ipc' = "done"
                  \/ turn = "control" /\ returned' \in ControlErrors /\ ipc' = ipc)
        /\ (returned' = "none" /\ turn' # turn =>
               turn' = (IF turn = "control" THEN "input" ELSE "control")) ]_vars

\* An ADC fault has ended the run after readings were folded and a request
\* was answered.
C31_Witness ==
    /\ turn = "returned"
    /\ returned = "Input"
    /\ samples >= 2
    /\ frames >= 1

\* C32: a readout runs within one poll of the dispatcher and a fold within
\* one poll of the input task, so every reading folded is counted by exactly
\* one readout or is still in its accumulator: the counts the readouts took
\* and the counts in the accumulators add up to the readings folded; a
\* full-stats readout reports for every input the count of the readings
\* folded since the previous readout and leaves every count at 0.
C32_ReadoutsCountEverySample ==
    [][ /\ counted' + Counts(inputs', Channels) = samples'
        /\ (frames' # frames =>
               /\ turn = "control"
               /\ samples' = samples
               /\ \A n \in 1..Channels : inputs'[n].count = 0
               /\ (response'.command = Command.InputGetFull =>
                      \A n \in 1..Channels :
                         /\ response'.payload[n].count = inputs[n].count
                         /\ response'.payload[n].count = folded[n]))
        /\ (samples' # samples => turn = "input" /\ frames' = frames) ]_vars

\* A second readout, a full one, has reported a reading folded after the
\* first readout, and readings have been folded since.
C32_Witness ==
    /\ frames = 2
    /\ response.some
    /\ response.command = Command.InputGetFull
    /\ \E n \in 1..Channels : response.payload[n].count = 1
    /\ counted >= 2
    /\ Counts(inputs, Channels) >= 1

\* The events of an iteration of InputLoop::run, in the order they occur.
IterationOrder ==
    <<"start0", "yield", "read0", "start1", "fold0", "read1", "select", "fold1">>

EventNames == [k \in 1..Len(events) |-> events[k].e]

\* C33: in every iteration at mux position i the events are, in this order,
\* ADC0 start, the yield, ADC0 result with timestamp t0, ADC1 start, the fold
\* of sample 0 into input i with t0, ADC1 result with timestamp t1, the
\* select lines programmed to the Gray-code successor of i, the fold of
\* sample 1 into input i + 8 with t1; and ADC0 is started for the next
\* iteration at a timer value of t1 + 3 us or later.
C33_IterationOrder ==
    [][ /\ Len(events') <= Len(IterationOrder)
        /\ EventNames' = SubSeq(IterationOrder, 1, Len(events'))
        /\ \A k \in 1..(Len(events') - 1) : events'[k].at <= events'[k + 1].at
        /\ (ipc = "read0" /\ ipc' = "start1" =>
               stamps'.now0 = now /\ stamps'.v0 = Reading(Head(feed).raw, sel, 0))
        /\ (ipc = "read1" /\ ipc' = "select0" =>
               stamps'.now1 = now /\ stamps'.v1 = Reading(Head(feed).raw, sel, 1))
        /\ (ipc = "fold0" /\ ipc' = "read1" =>
               /\ sample'.channel = sel
               /\ sample'.raw = stamps.v0
               /\ ticks' = stamps.now0
               /\ folded' = [folded EXCEPT ![sel + 1] = @ + 1])
        /\ (ipc = "select2" /\ ipc' = "fold1" =>
               mux' = GRAY_CODE_INCREMENT[sel + 1])
        /\ (ipc = "fold1" /\ ipc' = "settle" =>
               /\ sample'.channel = sel + 8
               /\ sample'.raw = stamps.v1
               /\ ticks' = stamps.now1
               /\ folded' = [folded EXCEPT ![sel + 9] = @ + 1])
        /\ (ipc' = "yield" /\ ipc = "start0" /\ stamps.some =>
               now >= stamps.now1 + 3) ]_vars

\* The second iteration has started its ADC0, after the settling wait of the
\* first had to yield.
C33_Witness ==
    /\ samples = 2
    /\ ipc = "yield"
    /\ stamps.some
    /\ Len(events) = 1
    /\ events[1].at >= stamps.now1 + 3

\* The order the claim gives for the mux positions.
CycleOrder == <<0, 1, 3, 2, 6, 7, 5, 4>>

\* The place of position i in the cycle, from 0.
CyclePlace(i) == CHOOSE k \in 0..7 : CycleOrder[k + 1] = i

\* How many of three select bits differ between positions a and b.
BitsApart(a, b) ==
    Cardinality({k \in 0..2 : (a \div (2 ^ k)) % 2 # (b \div (2 ^ k)) % 2})

\* How many of the first `count` readings of a run are readings of input n
\* (from 1), when the positions are visited in CycleOrder and each gives two
\* readings.
ReadingsOf(n, count) ==
    LET place == 2 * CyclePlace((n - 1) % 8) + (n - 1) \div 8
    IN  (count + 15 - place) \div 16

\* C34: from position 0 the input task visits the positions in the cyclic
\* order 0 1 3 2 6 7 5 4 0, each one select bit away from the one before; a
\* fold at position i changes the accumulator and the threshold state of
\* input i or of input i + 8 and of no other input; of any number of readings
\* each input has its share in that order, so that 8 iterations fold exactly
\* one reading into each of the 16 inputs.
C34_GrayCodeScan ==
    [][ /\ (sel' # sel =>
               /\ CyclePlace(sel') = (CyclePlace(sel) + 1) % 8
               /\ BitsApart(sel, sel') = 1)
        /\ (samples' # samples =>
               LET ch == IF half = 0 THEN sel ELSE sel + 8
               IN  /\ \A n \in 1..Channels :
                        n # ch + 1 =>
                            inputs'[n] = inputs[n] /\ thresholds'[n] = thresholds[n]
                   /\ inputs'[ch + 1] # inputs[ch + 1]
                   /\ inputs'[ch + 1].count = inputs[ch + 1].count + 1)
        /\ (frames' = 0 =>
               \A n \in 1..Channels : inputs'[n].count = ReadingsOf(n, samples')) ]_vars

\* A whole scan and the first iteration of the next are done, with no
\* readout in between.
C34_Witness ==
    /\ samples = 18
    /\ frames = 0
    /\ sel = 1
    /\ \A n \in 1..Channels : inputs[n].count = IF n \in {1, 9} THEN 2 ELSE 1

\* C35: when the wait for a reading meets a recoverable failure, the task
\* starts the same ADC half again (ADC0 while it waits for sample 0, ADC1
\* while it waits for sample 1) and goes on waiting: nothing is folded, the
\* position and the select lines stay, the run does not end; the reading
\* that ends the wait is one of that half. The input task ends the run only
\* with the error of an unrecoverable failure.
C35_RecoverableRestartsSameHalf ==
    [][ /\ (turn = "input" /\ errs' # errs =>
               /\ adc'.busy
               /\ adc'.half = (IF ipc = "read0" THEN 0 ELSE 1)
               /\ adc'.pos = adc.pos
               /\ ipc' = ipc
               /\ turn' = turn
               /\ returned' = "none"
               /\ UNCHANGED <<inputs, thresholds, samples, folded, sel, half, mux>>)
        /\ (ipc' = "start1" /\ ipc = "read0" => adc.half = 0)
        /\ (ipc' = "select0" /\ ipc = "read1" => adc.half = 1)
        /\ (ipc' = "done" /\ ipc # "done" => returned' = "Input") ]_vars

\* The wait for sample 1 met a failure, ADC1 was started again and its
\* reading has been folded into input i + 8.
C35_Witness ==
    /\ adc.some
    /\ adc.again
    /\ adc.half = 1
    /\ ~adc.busy
    /\ ipc = "settle"
    /\ sample.some
    /\ sample.channel >= 8
    /\ returned = "none"

\* C36: the select lines change only after ADC1 has delivered and before
\* ADC0 is started again, never while a conversion is under way; whenever
\* the ADC is started or started again the lines encode the position i of
\* the loop, and they keep it while the conversion runs, so that the reading
\* folded into input i or i + 8 was taken at position i.
C36_MuxStableWhileConverting ==
    [][ /\ (mux' # mux =>
               /\ adc.some
               /\ ~adc.busy
               /\ adc.half = 1
               /\ ipc \in {"select0", "select1", "select2"})
        /\ (adc'.some /\ adc'.busy => adc'.pos = sel' /\ mux' = sel')
        /\ (samples' # samples =>
               sample'.raw = Reading(Head(feed).raw, sample'.channel % 8,
                                     sample'.channel \div 8)) ]_vars

\* Position 3 has been converted and folded on both halves and the lines
\* already point at position 2.
C36_Witness ==
    /\ sel = 2
    /\ mux = 2
    /\ ipc = "settle"
    /\ sample.some
    /\ sample.channel = 11
    /\ sample.raw = Reading(Head(feed).raw, 3, 1)

C38_OversizeMarkerDoesNotBlock ==
    /\ buf_len <= BufSize
    /\ ( /\ lastRead.kind = "ok"
         /\ lastRead.gap
         /\ lastRead.held > 0
         /\ lastRead.delivered = plan[2].bytes
         /\ pc = "yield"
         /\ error = "none" ) =>
            ReplyHeads = <<[address |-> Addr.own, command |-> plan[2].command]>>

\* ---------------------------------------------------------------------------
\* Frame effects of the storing commands (checked under SpecStore)
\* ---------------------------------------------------------------------------

\* The three sections of the persisted data and the bytes of the page that
\* hold them.
Sections == {"config", "calibrations", "thresholds"}

SectionOf(command) ==
    CASE command = Command.ConfigSet -> "config"
      [] command = Command.InputSetCalibrations -> "calibrations"
      [] command = Command.InputSetThresholds -> "thresholds"

SectionBytes(page, section) ==
    CASE section = "config" -> SubSeq(page, 1, ConfigSize)
      [] section = "calibrations" ->
             SubSeq(page, ConfigSize + 1, ConfigSize + Channels * CalibrationSize)
      [] section = "thresholds" ->
             SubSeq(page, ConfigSize + Channels * CalibrationSize + 1, DataSize)

\* The storing command that is being handled in this step, if any.
Storing == IF held.some THEN held ELSE held'

\* C39: the cache and the flash change only in a step of ConfigSet,
\* InputSetCalibrations or InputSetThresholds, and such a step leaves the
\* sections other than the command's own as they were, in the cache and in
\* the bytes of the flash page.
C39_SetChangesOwnSectionOnly ==
    [][ (cell' # cell \/ flash' # flash) =>
          /\ Storing.some
          /\ Storing.command \in {Command.ConfigSet, Command.InputSetCalibrations,
                                  Command.InputSetThresholds}
          /\ frame'.command = Storing.command
          /\ \A section \in Sections \ {SectionOf(Storing.command)} :
                /\ cell'[section] = cell[section]
                /\ SectionBytes(flash', section) = SectionBytes(flash, section) ]_vars

\* C39 witness: the page has been written for a second storing command; the
\* section the first command stored, the one the second stored and the one
\* neither touched are all in the cache and in the page.
C39_Witness ==
    /\ main = "idle"
    /\ frames = 2
    /\ response.some
    /\ response.command = Command.InputSetThresholds
    /\ lastSet.some
    /\ cell.config.address = Addr.other
    /\ cell.calibrations = DefaultData.calibrations
    /\ cell.thresholds # DefaultData.thresholds
    /\ flash = write_to_prefix(cell)

\* ---------------------------------------------------------------------------
\* Properties of the master's send_request (checked under SpecMaster)
\* ---------------------------------------------------------------------------

\* C40: when send_request has rejected a response frame for its address or
\* its command, the frame is no longer in the receive buffer (the buffer
\* holds what lay behind the frame), and no response frame is handed to two
\* send_request calls.
C40_RejectedResponseRemoved ==
    /\ (outcome.some /\ outcome.kind \in {"address", "command"}) =>
            master_buf = outcome.rest
    /\ \A i \in DOMAIN examined : \A j \in DOMAIN examined :
            ( /\ examined[i].address = examined[j].address
              /\ examined[i].command = examined[j].command ) =>
                  examined[i].call = examined[j].call

====
